---- MODULE Spec2Model ----
(***************************************************************************)
(* A model of the video bot (wolongkang/clawd): the three pipeline         *)
(* handlers (animated, tweet, youtube), the animation adapter with its     *)
(* content-policy retry, the work-area handling, and the arithmetic of     *)
(* the still-image composition (duration allocation, crossfade offsets,    *)
(* final mux).                                                             *)
(*                                                                         *)
(* Durations are Python floats in the source.  They are modelled as exact  *)
(* rationals [n |-> numerator, d |-> denominator > 0] in lowest terms, in  *)
(* seconds; the one place where the source rounds on purpose (the ".3f"    *)
(* formatting of a crossfade offset) is modelled by Fmt3.                  *)
(***************************************************************************)
EXTENDS Integers, Sequences, FiniteSets, TLC

VARIABLES
    \* ---- still-image composition (youtube_video.handle, utils/video.py)
    spc,                \* position in the numeric path
    chapter_words,      \* per-chapter narration word counts
    audio_dur,          \* master audio duration (rational seconds)
    chapter_durations,  \* allocated per-chapter durations
    kb_clips,           \* durations of the Ken Burns clips, in order
    fade_dur,           \* crossfade length
    xf_i,               \* loop index of _concat_with_crossfades
    offset,             \* running xfade offset
    filter_parts,       \* offsets written into the filter chain, in order
    concat_mode,        \* "none" | "fail" | "copy" | "xfade"
    track_dur,          \* duration of slides_concat.mp4
    final_dur,          \* duration of final_video.mp4
    \* ---- one user's requests (main.handle_button and the three handlers)
    pc,                 \* position of the running handler, "idle" when none
    pipeline,           \* "none" | "animated" | "tweet" | "youtube"
    req_id,             \* number of the running (or last) request
    quota,              \* requests the user will still make in this run
    inflight,           \* overlapping requests (concurrent specification)
    scene_count,        \* the number of scenes the request asked for
    tts_calls,          \* tts.generate_speech calls of the request (history)
    scenes,             \* planned scenes (animated, tweet)
    chapters,           \* chapters of the structured script (youtube)
    idx,                \* number of loop iterations completed
    image_urls,         \* image_urls / slide_urls
    ref_url,            \* reference image for character consistency
    video_urls,         \* animated clip URLs
    clip_paths,         \* downloaded clips
    trimmed_paths,      \* concat list entries
    attempt,            \* animate_scene: loop variable
    current_prompt,     \* animate_scene: prompt of the next provider call
    anim_log,           \* animate_scene: calls made by the current invocation
    anim_result,        \* animate_scene: returned URL, or "None"
    yt_mode,            \* "none" | "slides" | "legacy"
    failures,           \* stage failures seen by the running request
    result,             \* "none" | "running" | "delivered" | "failed" | "crashed"
    delivery,           \* how the output was sent, and its size
    files,              \* files in the user's work areas
    user_data,          \* context.user_data
    prompts,            \* requests whose publish prompt is in the chat
    pending,            \* outputs produced and not yet disposed of
    uploads,            \* upload calls made to the publishing sink
    last_press,         \* what the last press of a publish button reported
    \* ---- job adapters (apis/kling.py, apis/runway.py, short_video.handle)
    jpc,                \* "off" | "create" | "poll" | "sleep" | "returned" | "over"
    provider,           \* "none" | "kling" | "runway"
    job,                \* the job at the provider
    create_out,         \* what the create request met
    creates,            \* create requests issued
    calls,              \* calls of the poll function for the job
    jattempt,           \* poll loop: attempt
    polls,              \* poll requests issued by the current call
    last_resp,          \* what the last poll request met
    had_error,          \* the current call met a transport or HTTP error
    elapsed,            \* seconds since the current call began
    jresult,            \* what the current call returned
    first_result,       \* what the first call returned
    \* script adapters (haiku, grok, openai_api)
    gpc,                \* position in generate_youtube_script[_structured]
    adapter,            \* which generator runs
    minutes,            \* the requested length
    first_words,        \* words of the first response, -1 without one
    script_words,       \* words of the script held, -1 without one
    cont_calls,         \* continuation calls issued
    first_shape,        \* what the first structured response parsed to
    ext_shape,          \* what the extension response parsed to
    data_from,          \* the response the returned chapters were built from
    gresult,            \* what the generator returned
    \* credentials and the operations that use them
    keys,               \* the credentials that are configured
    op,                 \* the operation last invoked
    net_calls,          \* network calls that invocation issued
    op_result,          \* what it returned
    \* utils.video._concat_clips
    cpc,                \* position in _concat_clips
    pool,               \* durations of the clips of clip_paths
    target_duration,    \* the duration to fill
    indexed,            \* the clip indices in their shuffled order
    pos,                \* clips of the current pass already visited
    passes,             \* the clips listed in concat.txt, pass by pass
    accumulated,        \* the duration listed so far
    concat_result,      \* what _concat_clips returned
    \* apis.tts.generate_speech and _split_text
    tpc,                \* position in generate_speech
    text,               \* the text to speak, a sequence of characters
    max_chars,          \* the chunk limit
    chunks,             \* what _split_text returned
    requested,          \* the chunk texts posted so far, in order
    all_audio,          \* the chunks whose audio was appended, in order
    speech_result,      \* what generate_speech returned
    audio_file,         \* what the handler wrote to audio.mp3
    \* apis.haiku.generate_youtube_script_structured, the chapter count
    asked_minutes,      \* the target lengths of the calls so far
    chapter_counts,     \* the chapter_count of each of these calls
    \* utils.video.create_ken_burns_clips
    kpc,                \* position in create_ken_burns_clips
    slide_exts,         \* the extension each image url gives: ".jpg" | ".png"
    slide_files,        \* the slide images downloaded, in order
    effects,            \* the effect chosen for each slide, in order
    motion_paths,       \* clip_paths of create_ken_burns_clips
    motion_result,      \* what create_ken_burns_clips returned
    \* the progress sink of kling.poll_video (history)
    sink_called,        \* the last poll invoked status_msg.edit_text
    lost                \* the result a poll had read when the sink raised

slideVars == <<spc, chapter_words, audio_dur, chapter_durations, kb_clips,
               fade_dur, xf_i, offset, filter_parts, concat_mode, track_dur,
               final_dur>>

\* The locals of a handler invocation and of animate_scene.
sceneVars == <<scenes, chapters, idx, image_urls, ref_url, video_urls,
               clip_paths, trimmed_paths>>

animVars == <<attempt, current_prompt, anim_log, anim_result>>

reqVars == <<pipeline, req_id, yt_mode, quota, inflight, tts_calls,
            scene_count>>

outVars == <<result, delivery>>

fsVars == <<files, user_data, prompts, pending, uploads>>

jobVars == <<jpc, provider, job, create_out, creates, calls, jattempt, polls,
             last_resp, had_error, elapsed, jresult, first_result>>

scriptVars == <<gpc, adapter, minutes, first_words, script_words, cont_calls,
                first_shape, ext_shape, data_from, gresult>>

keyVars == <<keys, op, net_calls, op_result>>

concatVars == <<cpc, pool, target_duration, indexed, pos, passes, accumulated,
                concat_result>>

speechVars == <<tpc, text, max_chars, chunks, requested, all_audio,
                speech_result, audio_file>>

countVars == <<asked_minutes, chapter_counts>>

motionVars == <<kpc, slide_exts, slide_files, effects, motion_paths,
                motion_result>>

sinkVars == <<sink_called, lost>>

toolVars == <<keyVars, concatVars, speechVars, countVars, motionVars, sinkVars>>

adapterVars == <<jobVars, scriptVars, toolVars>>

pressVars == <<last_press>>

pipeVars == <<pc, reqVars, sceneVars, animVars, failures, outVars, fsVars,
              pressVars>>

nonSlideVars == <<pipeVars, adapterVars>>

vars == <<slideVars, nonSlideVars>>

\* Values standing for Python's None.
NoPrompt == [scene |-> 0, safe |-> FALSE]
NoImage == [scene |-> 0, endpoint |-> "none", ref |-> 0]
NoUrl == [scene |-> 0, prompt |-> NoPrompt]
NoDelivery == [mode |-> "none", size |-> 0]
NoPath == [dir |-> [base |-> "none", user |-> <<>>], name |-> <<"none", 0>>]

\* No handler is running and nothing has been requested yet.
PipeIdle ==
    /\ pc = "idle"
    /\ pipeline = "none"
    /\ req_id = 0
    /\ inflight = {}
    /\ scene_count = 0
    /\ tts_calls = 0
    /\ yt_mode = "none"
    /\ scenes = <<>>
    /\ chapters = <<>>
    /\ idx = 0
    /\ image_urls = <<>>
    /\ ref_url = NoImage
    /\ video_urls = <<>>
    /\ clip_paths = <<>>
    /\ trimmed_paths = <<>>
    /\ attempt = 0
    /\ current_prompt = NoPrompt
    /\ anim_log = <<>>
    /\ anim_result = NoUrl
    /\ failures = {}
    /\ result = "none"
    /\ delivery = NoDelivery
    /\ files = {}
    /\ user_data = [last_video_path |-> NoPath, last_video_topic |-> 0,
                    last_video_script |-> 0]
    /\ prompts = {}
    /\ pending = {}
    /\ uploads = <<>>
    /\ last_press = "none"

JobIdle ==
    /\ jpc = "off"
    /\ provider = "none"
    /\ job = "none"
    /\ create_out = "none"
    /\ creates = 0
    /\ calls = 0
    /\ jattempt = 0
    /\ polls = 0
    /\ last_resp = "none"
    /\ had_error = FALSE
    /\ elapsed = 0
    /\ jresult = "none"
    /\ first_result = "none"

ScriptIdle ==
    /\ gpc = "off"
    /\ adapter = "none"
    /\ minutes = 0
    /\ first_words = -1
    /\ script_words = -1
    /\ cont_calls = 0
    /\ first_shape = "none"
    /\ ext_shape = "none"
    /\ data_from = "none"
    /\ gresult = "none"

KeysIdle ==
    /\ keys = {}
    /\ op = "none"
    /\ net_calls = 0
    /\ op_result = "none"

ConcatIdle ==
    /\ cpc = "off"
    /\ pool = <<>>
    /\ target_duration = 0
    /\ indexed = <<>>
    /\ pos = 0
    /\ passes = <<>>
    /\ accumulated = 0
    /\ concat_result = "none"

SpeechIdle ==
    /\ tpc = "off"
    /\ text = <<>>
    /\ max_chars = 0
    /\ chunks = <<>>
    /\ requested = <<>>
    /\ all_audio = <<>>
    /\ speech_result = "none"
    /\ audio_file = "none"

CountIdle ==
    /\ asked_minutes = <<>>
    /\ chapter_counts = <<>>

MotionIdle ==
    /\ kpc = "off"
    /\ slide_exts = <<>>
    /\ slide_files = <<>>
    /\ effects = <<>>
    /\ motion_paths = <<>>
    /\ motion_result = "none"

SinkIdle ==
    /\ sink_called = FALSE
    /\ lost = "none"

ToolsIdle ==
    KeysIdle /\ ConcatIdle /\ SpeechIdle /\ CountIdle /\ MotionIdle /\ SinkIdle

AdaptersIdle == JobIdle /\ ScriptIdle /\ ToolsIdle

-----------------------------------------------------------------------------
(* Bounds of the model *)

MaxChapters == 3
MaxWords == 3
MaxAudio == 24
MaxClips == 3
MaxRequests == 2
MaxScenes == 2
MaxUsers == 2
MaxFootage == 2
MaxMinutes == 2
MaxPool == 3
MaxTarget == 4
MaxText == 5
MaxChars == 3
MaxLength == 20
MaxCalls == 2
MaxSlides == 6

-----------------------------------------------------------------------------
(* Exact rational arithmetic standing for the float arithmetic *)

RECURSIVE GCD(_, _)
GCD(a, b) == IF b = 0 THEN a ELSE GCD(b, a % b)

Abs(x) == IF x < 0 THEN -x ELSE x

Rat(n, d) ==
    LET g == GCD(Abs(n), d) IN [n |-> n \div g, d |-> d \div g]

RInt(k) == [n |-> k, d |-> 1]
RAdd(a, b) == Rat(a.n * b.d + b.n * a.d, a.d * b.d)
RSub(a, b) == Rat(a.n * b.d - b.n * a.d, a.d * b.d)
RMul(a, b) == Rat(a.n * b.n, a.d * b.d)
RLe(a, b) == a.n * b.d <= b.n * a.d
RLt(a, b) == a.n * b.d < b.n * a.d
RMax(a, b) == IF RLe(b, a) THEN a ELSE b
RMin(a, b) == IF RLe(a, b) THEN a ELSE b
RAbs(a) == [n |-> Abs(a.n), d |-> a.d]

RECURSIVE RSum(_)
RSum(s) == IF s = <<>> THEN RInt(0) ELSE RAdd(Head(s), RSum(Tail(s)))

RECURSIVE SumInts(_)
SumInts(s) == IF s = <<>> THEN 0 ELSE Head(s) + SumInts(Tail(s))

\* The first k elements of a sequence.
Prefix(s, k) == SubSeq(s, 1, k)

\* f"{x:.3f}": the value written is x rounded to the nearest 1/1000.  (An
\* exact midpoint k/2000, k odd, is resolved by the binary double in Python;
\* no value of this model is a midpoint.)
Fmt3(x) == Rat((2000 * x.n + x.d) \div (2 * x.d), 1000)

-----------------------------------------------------------------------------
(* youtube_video.handle, step 4: per-chapter durations *)

\* total_words = sum(chapter_words); if total_words <= 0: total_words = 1
TotalWordsMaxBug(words) ==
    LET m == IF words = <<>> THEN 0
             ELSE CHOOSE x \in {words[k] : k \in DOMAIN words} :
                      \A k \in DOMAIN words : words[k] <= x
    IN IF m <= 0 THEN 1 ELSE m

TotalWords(words) ==
    LET s == SumInts(words) IN IF s <= 0 THEN 1 ELSE s

MIN_CHAPTER_SECONDS == 3

\* (w / total_words) * audio_dur, then max(3.0, d)
ChapterDurationNoFloor(w, total, audio) == RMul(Rat(w, total), audio)

ChapterDuration(w, total, audio) ==
    RMax(RInt(MIN_CHAPTER_SECONDS), RMul(Rat(w, total), audio))

AllocateDurations(words, audio) ==
    [k \in DOMAIN words |-> ChapterDuration(words[k], TotalWords(words), audio)]

-----------------------------------------------------------------------------
(* utils/video.py: _concat_with_crossfades *)

\* fade_dur: float = 0.5
DefaultFade == Rat(1, 2)

\* offset = durations[0] - fade_dur
FirstOffset(d0, f) == RSub(d0, f)

\* offset += durations[i] - fade_dur
NextOffsetNoFade(off, d, f) == RAdd(off, d)

NextOffset(off, d, f) == RAdd(off, RSub(d, f))

\* The xfade filter: its output ends when its second input ends, so a chain
\* whose last transition starts at `lastOffset` is lastOffset + d_last long.
XfadeTrack(lastOffset, dLast) == RAdd(lastOffset, dLast)

-----------------------------------------------------------------------------
(* The numeric path of still-image mode:                                   *)
(* handle (allocation) -> create_ken_burns_clips -> composite_slides_video *)

NoDur == [n |-> -1, d |-> 1]

SeqsUpTo(S, n) == UNION {[1..k -> S] : k \in 0..n}

\* chapter_durations = [max(3.0, (w / total_words) * audio_dur) ...]
Allocate ==
    /\ spc = "alloc"
    /\ chapter_durations' = AllocateDurations(chapter_words, audio_dur)
    /\ spc' = "kenburns"
    /\ UNCHANGED <<chapter_words, audio_dur, kb_clips, fade_dur, xf_i, offset,
                   filter_parts, concat_mode, track_dur, final_dur>>
    /\ UNCHANGED nonSlideVars

\* create_ken_burns_clips with every download and ffmpeg run succeeding: one
\* clip per (url, duration) pair, each encoded with "-t duration".  An empty
\* result sends handle to the stock-footage pipeline.
CreateKenBurnsClips ==
    /\ spc = "kenburns"
    /\ kb_clips' = chapter_durations
    /\ spc' = IF chapter_durations = <<>> THEN "legacy" ELSE "composite"
    /\ UNCHANGED <<chapter_words, audio_dur, chapter_durations, fade_dur, xf_i,
                   offset, filter_parts, concat_mode, track_dur, final_dur>>
    /\ UNCHANGED nonSlideVars

\* _concat_with_crossfades up to the loop: no clip -> False; one clip -> copy;
\* otherwise durations are probed and offset = durations[0] - fade_dur.
ConcatStart ==
    /\ spc = "composite"
    /\ IF kb_clips = <<>>
       THEN /\ concat_mode' = "fail"
            /\ spc' = "failed"
            /\ UNCHANGED <<offset, xf_i, track_dur>>
       ELSE IF Len(kb_clips) = 1
       THEN /\ concat_mode' = "copy"
            /\ track_dur' = kb_clips[1]
            /\ spc' = "mux"
            /\ UNCHANGED <<offset, xf_i>>
       ELSE /\ concat_mode' = "xfade"
            /\ offset' = FirstOffset(kb_clips[1], fade_dur)
            /\ xf_i' = 1
            /\ spc' = "xfade_loop"
            /\ UNCHANGED track_dur
    /\ UNCHANGED <<chapter_words, audio_dur, chapter_durations, kb_clips,
                   fade_dur, filter_parts, final_dur>>
    /\ UNCHANGED nonSlideVars

\* One iteration of "for i in range(1, len(clip_paths))": the transition is
\* written with offset formatted to three decimals, then the offset advances
\* unless this was the last transition.  (durations[i] is kb_clips[xf_i + 1].)
XfadeStep ==
    /\ spc = "xfade_loop"
    /\ xf_i < Len(kb_clips)
    /\ filter_parts' = Append(filter_parts, Fmt3(offset))
    /\ offset' = IF xf_i < Len(kb_clips) - 1
                 THEN NextOffset(offset, kb_clips[xf_i + 1], fade_dur)
                 ELSE offset
    /\ xf_i' = xf_i + 1
    /\ UNCHANGED <<spc, chapter_words, audio_dur, chapter_durations, kb_clips,
                   fade_dur, concat_mode, track_dur, final_dur>>
    /\ UNCHANGED nonSlideVars

\* The ffmpeg run over the finished filter chain.
XfadeRun ==
    /\ spc = "xfade_loop"
    /\ xf_i = Len(kb_clips)
    /\ track_dur' = XfadeTrack(filter_parts[Len(filter_parts)],
                               kb_clips[Len(kb_clips)])
    /\ spc' = "mux"
    /\ UNCHANGED <<chapter_words, audio_dur, chapter_durations, kb_clips,
                   fade_dur, xf_i, offset, filter_parts, concat_mode, final_dur>>
    /\ UNCHANGED nonSlideVars

\* composite_slides_video, final pass: "-t audio_dur" and "-shortest" end
\* the output with the shorter of the visual track and the audio.
MuxDuration(track, audio) == RMin(track, audio)

Mux ==
    /\ spc = "mux"
    /\ final_dur' = MuxDuration(track_dur, audio_dur)
    /\ spc' = "done"
    /\ UNCHANGED <<chapter_words, audio_dur, chapter_durations, kb_clips,
                   fade_dur, xf_i, offset, filter_parts, concat_mode, track_dur>>
    /\ UNCHANGED nonSlideVars

SlidesBlank ==
    /\ chapter_durations = <<>>
    /\ xf_i = 0
    /\ offset = NoDur
    /\ filter_parts = <<>>
    /\ concat_mode = "none"
    /\ track_dur = NoDur
    /\ final_dur = NoDur

InitSlides ==
    /\ spc = "alloc"
    /\ chapter_words \in SeqsUpTo(0..MaxWords, MaxChapters)
    /\ audio_dur \in {RInt(a) : a \in 1..MaxAudio}
    /\ kb_clips = <<>>
    /\ fade_dur = DefaultFade
    /\ SlidesBlank
    /\ PipeIdle
    /\ AdaptersIdle
    /\ quota = 0

NextSlides ==
    \/ Allocate
    \/ CreateKenBurnsClips
    \/ ConcatStart
    \/ XfadeStep
    \/ XfadeRun
    \/ Mux

SpecSlides == InitSlides /\ [][NextSlides]_vars

-----------------------------------------------------------------------------
(* _concat_with_crossfades on arbitrary clips *)

\* Durations as ffprobe reports them for 30 fps clips (91/30 = 3.0333...).
ClipDurations == {RInt(3), Rat(91, 30), Rat(15, 2), Rat(241, 30)}

FadeLengths == {Rat(1, 2), Rat(1, 4)}

InitXfade ==
    /\ spc = "composite"
    /\ kb_clips \in SeqsUpTo(ClipDurations, MaxClips)
    /\ fade_dur \in FadeLengths
    /\ chapter_words = <<>>
    /\ audio_dur = NoDur
    /\ SlidesBlank
    /\ PipeIdle
    /\ AdaptersIdle
    /\ quota = 0

NextXfade ==
    \/ ConcatStart
    \/ XfadeStep
    \/ XfadeRun

SpecXfade == InitXfade /\ [][NextXfade]_vars

-----------------------------------------------------------------------------
(* Properties of the still-image composition *)

HasNarration == SumInts(chapter_words) > 0

\* The word-count-proportional share of chapter k, computed from the inputs.
ShareOf(k) == RMul(Rat(chapter_words[k], SumInts(chapter_words)), audio_dur)

\* C1 (as claimed): when still-image composition finishes, the crossfaded
\* visual track is at least as long as the audio and the muxed output is
\* exactly as long as the audio.
C1_OutputEqualsAudio ==
    (spc = "done" /\ HasNarration) =>
        /\ RLe(audio_dur, track_dur)
        /\ final_dur = audio_dur

\* C2 (as claimed): the allocated chapter durations add up to the audio
\* duration.
C2_SumEqualsAudio ==
    (spc = "done" /\ HasNarration) => RSum(chapter_durations) = audio_dur

\* C2 (amended): with narration present, the allocated durations add up to
\* at least the audio duration, and to exactly the audio duration precisely
\* when no chapter's proportional share is below the 3 second floor.
C2_SumAtLeastAudio ==
    (spc # "alloc" /\ HasNarration) =>
        /\ Len(chapter_durations) = Len(chapter_words)
        /\ RLe(audio_dur, RSum(chapter_durations))
        /\ (RSum(chapter_durations) = audio_dur) <=>
               (\A k \in DOMAIN chapter_words :
                   RLe(RInt(MIN_CHAPTER_SECONDS), ShareOf(k)))

C2_Witness ==
    /\ spc = "done"
    /\ HasNarration
    /\ Len(chapter_words) = 3
    /\ \E k \in DOMAIN chapter_words :
           /\ RLt(ShareOf(k), RInt(3))
           /\ chapter_durations[k] = RInt(3)
    /\ \E k \in DOMAIN chapter_words : chapter_durations[k] = ShareOf(k)
    /\ RLt(audio_dur, RSum(chapter_durations))

\* The exact offset of the k-th transition and the exact track length.
ExactOffset(k) == RSub(RSum(Prefix(kb_clips, k)), RMul(RInt(k), fade_dur))
ExactTrack == RSub(RSum(kb_clips), RMul(RInt(Len(kb_clips) - 1), fade_dur))

HalfMilli == Rat(1, 2000)
IsMillis(x) == 1000 % x.d = 0
Near(x, y) == RLe(RAbs(RSub(x, y)), HalfMilli)

ConcatReturned == spc \in {"mux", "failed"}

\* C3 (as claimed): N-1 transitions, the k-th at exactly
\* (d_0 + ... + d_{k-1}) - k*f, and a track of exactly sum(d) - (N-1)*f.
C3_ExactOffsets ==
    (ConcatReturned /\ Len(kb_clips) >= 2) =>
        /\ Len(filter_parts) = Len(kb_clips) - 1
        /\ \A k \in DOMAIN filter_parts : filter_parts[k] = ExactOffset(k)
        /\ track_dur = ExactTrack

\* C3 (amended): N-1 transitions, the k-th at (d_0 + ... + d_{k-1}) - k*f
\* rounded to the millisecond, so the track is within half a millisecond of
\* sum(d) - (N-1)*f; one clip is copied with no transition; no clip fails.
C3_RoundedOffsets ==
    ConcatReturned =>
        /\ (Len(kb_clips) = 0) =>
               /\ spc = "failed"
               /\ concat_mode = "fail"
               /\ filter_parts = <<>>
        /\ (Len(kb_clips) = 1) =>
               /\ spc = "mux"
               /\ concat_mode = "copy"
               /\ filter_parts = <<>>
               /\ track_dur = kb_clips[1]
        /\ (Len(kb_clips) >= 2) =>
               /\ spc = "mux"
               /\ concat_mode = "xfade"
               /\ Len(filter_parts) = Len(kb_clips) - 1
               /\ \A k \in DOMAIN filter_parts :
                      /\ IsMillis(filter_parts[k])
                      /\ Near(filter_parts[k], ExactOffset(k))
               /\ Near(track_dur, ExactTrack)

C3_Witness ==
    /\ spc = "mux"
    /\ Len(kb_clips) = 3
    /\ filter_parts[1] = ExactOffset(1)
    /\ filter_parts[2] # ExactOffset(2)
    /\ track_dur # ExactTrack

-----------------------------------------------------------------------------
(* Work areas: _get_work_dir and _cleanup (one copy in each handler module) *)

\* Telegram user ids; some have more than one digit.
Users == {5 * u : u \in 1..MaxUsers}

\* The sequential specification follows one user.
FirstUser == CHOOSE u \in Users : \A v \in Users : u <= v

\* TMP_BASE
TmpBase(p) ==
    CASE p = "animated" -> "/tmp/videobot/animated"
      [] p = "tweet" -> "/tmp/videobot/tweet"
      [] p = "youtube" -> "/tmp/videobot/youtube"

\* str(user_id): the decimal digits
RECURSIVE Digits(_)
Digits(n) == IF n < 10 THEN <<n>> ELSE Append(Digits(n \div 10), n % 10)

\* os.path.join(TMP_BASE, str(user_id))
WorkDirIgnoresUser(p, user_id) == [base |-> TmpBase(p), user |-> <<>>]

WorkDir(p, user_id) == [base |-> TmpBase(p), user |-> Digits(user_id)]

\* output_path: "final.mp4" (animated, tweet), "final_video.mp4" (youtube)
FinalName(p) ==
    IF p = "youtube" THEN <<"final_video.mp4", 0>> ELSE <<"final.mp4", 0>>

NoName == <<"none", 0>>

FilePath(dir, name) == [dir |-> dir, name |-> name]

PathExists(fs, path) ==
    \E f \in fs : f.dir = path.dir /\ f.name = path.name

\* open(path, "wb") / ffmpeg -y: the file is created or replaced.
WriteFile(fs, dir, name, by) ==
    {f \in fs : ~(f.dir = dir /\ f.name = name)}
        \cup {[dir |-> dir, name |-> name, by |-> by]}

\* os.remove(path)
RemoveFileKeeps(fs, path) == fs

RemoveFile(fs, path) ==
    {f \in fs : ~(f.dir = path.dir /\ f.name = path.name)}

\* _cleanup(work_dir, keep_final): every file of the directory but keep_final
\* is removed.
CleanupKeepsNothing(fs, dir, keep) == {f \in fs : f.dir # dir}

Cleanup(fs, dir, keep) ==
    {f \in fs : f.dir # dir \/ (keep # NoName /\ f.name = keep)}

\* The outputs whose file is no longer the one the request produced.
StillOnDisk(fs, out) ==
    [dir |-> out.dir, name |-> out.name, by |-> out.by] \in fs

-----------------------------------------------------------------------------
(* main.handle_button: a scene-count or duration button starts a handler *)

work_dir == WorkDir(pipeline, FirstUser)
output_path == FilePath(work_dir, FinalName(pipeline))

\* The locals of a handler do not outlive it.
DropLocals ==
    /\ scenes' = <<>>
    /\ chapters' = <<>>
    /\ idx' = 0
    /\ image_urls' = <<>>
    /\ ref_url' = NoImage
    /\ video_urls' = <<>>
    /\ clip_paths' = <<>>
    /\ trimmed_paths' = <<>>
    /\ attempt' = 0
    /\ current_prompt' = NoPrompt
    /\ anim_log' = <<>>
    /\ anim_result' = NoUrl

StartRequest(p, n) ==
    /\ pc = "idle"
    /\ quota > 0
    /\ quota' = quota - 1
    /\ req_id' = req_id + 1
    /\ pipeline' = p
    /\ yt_mode' = IF p = "youtube" THEN "slides" ELSE "none"
    /\ pc' = CASE p = "animated" -> "plan"
               [] p = "tweet" -> "analyze"
               [] p = "youtube" -> "yt_script"
    /\ failures' = {}
    /\ result' = "running"
    /\ delivery' = NoDelivery
    /\ tts_calls' = 0
    /\ scene_count' = IF p = "youtube" THEN 0 ELSE n
    /\ UNCHANGED <<inflight, sceneVars, animVars, fsVars, slideVars, adapterVars, pressVars>>

\* The handler returns after reporting a failure.
ReturnFailed ==
    /\ pc' = "idle"
    /\ result' = "failed"
    /\ DropLocals

\* An exception leaves the handler; the dispatcher logs it.
Crash ==
    /\ pc' = "idle"
    /\ result' = "crashed"
    /\ DropLocals

-----------------------------------------------------------------------------
(* tweet_video.handle, step 1, and scene planning of both handlers *)

AnalyzeTweet(ok) ==
    /\ pc = "analyze"
    /\ IF ok
       THEN /\ pc' = "plan"
            /\ UNCHANGED <<failures, result, sceneVars, animVars>>
       ELSE /\ failures' = failures \cup {"analyze"}
            /\ ReturnFailed
    /\ UNCHANGED <<reqVars, delivery, fsVars, slideVars, adapterVars, pressVars>>

\* "8s" for dialogue scenes, "4s" for quick transitions
SceneDuration(k) == IF k % 2 = 1 THEN "8s" ELSE "4s"

PlannedPrompt(k) == [scene |-> k, safe |-> FALSE]

PlannedScenes(m) ==
    [k \in 1..m |-> [image_prompt |-> k,
                     animation_prompt |-> PlannedPrompt(k),
                     duration |-> SceneDuration(k)]]

\* if not scenes: return
PlanRejected(planned) == planned = <<>>

\* _generate_scenes / _generate_scenes_from_tweet: a non-empty list, None
\* (modelled as the empty list), or an exception of the text-model call.
PlanScenes(outcome, m) ==
    /\ pc = "plan"
    /\ LET planned == IF outcome = "list" THEN PlannedScenes(m) ELSE <<>>
       IN IF outcome = "raise"
          THEN /\ failures' = failures \cup {"plan"}
               /\ Crash
          ELSE /\ failures' = IF outcome = "none"
                              THEN failures \cup {"plan"}
                              ELSE failures
               /\ IF PlanRejected(planned)
                  THEN ReturnFailed
                  ELSE /\ scenes' = planned
                       /\ pc' = "image"
                       /\ UNCHANGED <<result, chapters, idx, image_urls,
                                      ref_url, video_urls, clip_paths,
                                      trimmed_paths, animVars>>
    /\ UNCHANGED <<reqVars, delivery, fsVars, slideVars, adapterVars, pressVars>>

-----------------------------------------------------------------------------
(* Image generation loop *)

\* fal_api.generate_image: the edit endpoint when a reference is given.
GeneratedImage(k, ref) ==
    [scene |-> k,
     endpoint |-> IF ref = NoImage THEN "gen" ELSE "edit",
     ref |-> ref.scene]

\* if not url: return
ImageMissingIgnored(url) == FALSE

ImageMissing(url) == url = NoImage

\* The loop is over when the last of the n items has been handled.
NextIdx(k, n) == IF k = n THEN 0 ELSE k
NextPc(k, n, again, after) == IF k = n THEN after ELSE again

\* if i == 0: ref_url = url
KeepReferenceLatest(i, url, ref) == url

KeepReference(i, url, ref) == IF i = 0 THEN url ELSE ref

GenerateImage(ok) ==
    /\ pc = "image"
    /\ idx < Len(scenes)
    /\ LET k == idx + 1
           url == IF ok THEN GeneratedImage(k, ref_url) ELSE NoImage
       IN /\ failures' = IF ok THEN failures ELSE failures \cup {"image"}
          /\ IF ImageMissing(url)
             THEN ReturnFailed
             ELSE /\ image_urls' = Append(image_urls, url)
                  /\ ref_url' = KeepReference(idx, url, ref_url)
                  /\ idx' = NextIdx(k, Len(scenes))
                  /\ pc' = NextPc(k, Len(scenes), "image", "animate")
                  /\ UNCHANGED <<result, scenes, chapters, video_urls,
                                 clip_paths, trimmed_paths, animVars>>
    /\ UNCHANGED <<reqVars, delivery, fsVars, slideVars, adapterVars, pressVars>>

-----------------------------------------------------------------------------
(* fal_api.animate_scene and _sanitize_prompt *)

\* The loop "for i, scene in enumerate(scenes)" calls animate_scene; the
\* first pass of "for attempt in range(2)" uses the prompt as given.
\* "if not FAL_KEY: return None" comes before the loop.
AnimateEnter(keyed) ==
    /\ pc = "animate"
    /\ idx < Len(scenes)
    /\ attempt' = 0
    /\ current_prompt' = scenes[idx + 1].animation_prompt
    /\ anim_log' = <<>>
    /\ anim_result' = NoUrl
    /\ pc' = IF keyed THEN "anim_call" ELSE "anim_ret"
    /\ UNCHANGED <<reqVars, sceneVars, failures, outVars, fsVars, slideVars, adapterVars, pressVars>>

ProviderOutcomes == {"video", "no_video", "content_policy_violation", "error"}

\* "content_policy_violation" in error_str and attempt == 0
ShouldRetryAnyError(err, att) == att = 0

ShouldRetry(err, att) == err = "content_policy_violation" /\ att = 0

\* range(2)
ATTEMPTS == 2

\* One call of fal_client.subscribe with current_prompt.
AnimCall(o) ==
    /\ pc = "anim_call"
    /\ anim_log' = Append(anim_log, [op |-> "provider",
                                     prompt |-> current_prompt,
                                     outcome |-> o])
    /\ CASE o = "video" ->
              /\ anim_result' = [scene |-> idx + 1, prompt |-> current_prompt]
              /\ pc' = "anim_ret"
              /\ UNCHANGED attempt
         [] o = "no_video" ->
              /\ anim_result' = NoUrl
              /\ pc' = "anim_ret"
              /\ UNCHANGED attempt
         [] o \in {"content_policy_violation", "error"} ->
              IF ShouldRetry(o, attempt) /\ attempt + 1 < ATTEMPTS
              THEN /\ attempt' = attempt + 1
                   /\ pc' = "anim_sanitize"
                   /\ UNCHANGED anim_result
              ELSE /\ anim_result' = NoUrl
                   /\ pc' = "anim_ret"
                   /\ UNCHANGED attempt
    /\ UNCHANGED <<reqVars, sceneVars, current_prompt, failures, outVars,
                   fsVars, slideVars, adapterVars, pressVars>>

\* What the secondary text model returns for a flagged prompt.
Rewritten(prompt) == [prompt EXCEPT !.safe = TRUE]

\* _sanitize_prompt: "if sanitized: return sanitized" else "return prompt"
SanitizePrompt(prompt, sanitized) ==
    IF sanitized # NoPrompt THEN sanitized ELSE prompt

\* The scene record after animate_scene has chosen its retry prompt: the
\* prompt is a local of animate_scene, the record is not written.
SceneAfterRetry(scene, retry_prompt) == scene

\* Second pass: current_prompt = _sanitize_prompt(prompt).  _call_haiku
\* returns the rewrite, returns None (non-200 status), or raises (transport
\* error, malformed body); the exception is not caught in _sanitize_prompt
\* and reaches the except clause of animate_scene with attempt == 1.
AnimSanitize(o) ==
    /\ pc = "anim_sanitize"
    /\ LET prompt == scenes[idx + 1].animation_prompt
           retry == IF o = "rewritten"
                    THEN SanitizePrompt(prompt, Rewritten(prompt))
                    ELSE SanitizePrompt(prompt, NoPrompt)
       IN /\ anim_log' = Append(anim_log, [op |-> "sanitizer",
                                           prompt |-> prompt,
                                           outcome |-> o])
          /\ IF o = "raises"
             THEN /\ anim_result' = NoUrl
                  /\ pc' = "anim_ret"
                  /\ UNCHANGED <<current_prompt, scenes>>
             ELSE /\ current_prompt' = retry
                  /\ scenes' = [scenes EXCEPT
                                   ![idx + 1] = SceneAfterRetry(@, retry)]
                  /\ pc' = "anim_call"
                  /\ UNCHANGED anim_result
    /\ UNCHANGED <<reqVars, chapters, idx, image_urls, ref_url, video_urls,
                   clip_paths, trimmed_paths, attempt, failures, outVars,
                   fsVars, slideVars, adapterVars, pressVars>>

\* if not url: return
UrlMissing(url) == url = NoUrl

\* The handler takes the result of animate_scene.
AnimReturn ==
    /\ pc = "anim_ret"
    /\ LET k == idx + 1
       IN /\ failures' = IF anim_result = NoUrl
                         THEN failures \cup {"animate"}
                         ELSE failures
          /\ IF UrlMissing(anim_result)
             THEN ReturnFailed
             ELSE /\ video_urls' = Append(video_urls, anim_result)
                  /\ idx' = NextIdx(k, Len(scenes))
                  /\ pc' = NextPc(k, Len(scenes), "animate", "download")
                  /\ UNCHANGED <<result, scenes, chapters, image_urls, ref_url,
                                 clip_paths, trimmed_paths, animVars>>
    /\ UNCHANGED <<reqVars, delivery, fsVars, slideVars, adapterVars, pressVars>>
-----------------------------------------------------------------------------
(* Clip-per-scene assembly: download, trim, concatenate *)

\* The handler removes its work area's files and returns.
CleanupAndFail ==
    /\ files' = Cleanup(files, work_dir, NoName)
    /\ ReturnFailed

\* _download(url, path) of raw_NN.mp4; a failed download ends the request.
DownloadMissing(ok) == ~ok

DownloadClip(ok) ==
    /\ pc = "download"
    /\ idx < Len(video_urls)
    /\ LET k == idx + 1
       IN /\ failures' = IF ok THEN failures ELSE failures \cup {"download"}
          /\ IF DownloadMissing(ok)
             THEN CleanupAndFail
             ELSE /\ files' = IF ok
                              THEN WriteFile(files, work_dir, <<"raw", k>>,
                                             req_id)
                              ELSE files
                  /\ clip_paths' = Append(clip_paths, <<"raw", k>>)
                  /\ idx' = NextIdx(k, Len(video_urls))
                  /\ pc' = NextPc(k, Len(video_urls), "download", "trim")
                  /\ UNCHANGED <<result, scenes, chapters, image_urls, ref_url,
                                 video_urls, trimmed_paths, animVars>>
    /\ UNCHANGED <<reqVars, delivery, user_data, prompts, pending, uploads,
                   slideVars, adapterVars, pressVars>>

\* The entry of trimmed_paths for clip k: trim_NN.mp4 when ffmpeg exits with
\* 0, the untrimmed raw_NN.mp4 otherwise.
TrimEntry(k, rc) == IF rc = 0 THEN <<"trim", k>> ELSE <<"raw", k>>

\* subprocess.run(ffmpeg ..., timeout=60): exit status 0, a non-zero exit
\* status, or TimeoutExpired, which the handler does not catch.
TrimClip(o) ==
    /\ pc = "trim"
    /\ idx < Len(clip_paths)
    /\ LET k == idx + 1
           rc == IF o = "rc0" THEN 0 ELSE 1
       IN /\ failures' = IF o = "rc0" THEN failures ELSE failures \cup {"trim"}
          /\ IF o = "raise"
             THEN /\ Crash
                  /\ UNCHANGED files
             ELSE /\ files' = IF rc = 0
                              THEN WriteFile(files, work_dir, <<"trim", k>>,
                                             req_id)
                              ELSE files
                  /\ trimmed_paths' = Append(trimmed_paths, TrimEntry(k, rc))
                  /\ idx' = NextIdx(k, Len(clip_paths))
                  /\ pc' = NextPc(k, Len(clip_paths), "trim", "concat")
                  /\ UNCHANGED <<result, scenes, chapters, image_urls, ref_url,
                                 video_urls, clip_paths, animVars>>
    /\ UNCHANGED <<reqVars, delivery, user_data, prompts, pending, uploads,
                   slideVars, adapterVars, pressVars>>

\* if result.returncode != 0 or not os.path.exists(output_path)
AssemblyFailed(rc, exists) == rc # 0 \/ ~exists

\* The output a request has produced, until it is disposed of.
Produced(path, by) == [dir |-> path.dir, name |-> path.name, by |-> by]

\* concat.txt is written, then ffmpeg -y writes final.mp4.
ConcatClips(o) ==
    /\ pc = "concat"
    /\ LET listed == WriteFile(files, work_dir, <<"concat.txt", 0>>, req_id)
           written == WriteFile(listed, work_dir, FinalName(pipeline), req_id)
           rc == IF o = "rc0" THEN 0 ELSE 1
           after == IF o = "rc0" THEN written ELSE listed
       IN /\ failures' = IF o = "rc0" THEN failures
                         ELSE failures \cup {"concat"}
          /\ IF o = "raise"
             THEN /\ files' = listed
                  /\ Crash
                  /\ UNCHANGED pending
             ELSE IF AssemblyFailed(rc, PathExists(after, output_path))
                  THEN /\ files' = Cleanup(after, work_dir, NoName)
                       /\ ReturnFailed
                       /\ UNCHANGED pending
                  ELSE /\ files' = after
                       /\ pending' = IF o = "rc0"
                                     THEN pending
                                          \cup {Produced(output_path, req_id)}
                                     ELSE pending
                       /\ pc' = "deliver"
                       /\ UNCHANGED <<result, sceneVars, animVars>>
    /\ UNCHANGED <<reqVars, delivery, user_data, prompts, uploads, slideVars, adapterVars, pressVars>>

-----------------------------------------------------------------------------
(* youtube_video.handle: still-image mode *)

AudioName == <<"audio.mp3", 0>>

\* Where the handler continues without slides: _handle_legacy (script and
\* speech first) before there is audio, _handle_legacy_from_audio after.
LegacyEntryRestarts(has_audio) == "lg_script"

LegacyEntry(has_audio) == IF has_audio THEN "lg_footage" ELSE "lg_script"

\* generate_youtube_script_structured returns the chapter list or None (its
\* own exceptions are caught); without chapters the handler continues in
\* _handle_legacy.
YtScript(o, m) ==
    /\ pc = "yt_script"
    /\ IF o = "chapters"
       THEN /\ chapters' = [k \in 1..m |-> k]
            /\ pc' = "yt_tts"
            /\ UNCHANGED <<yt_mode, failures>>
       ELSE /\ failures' = failures \cup {"structured"}
            /\ yt_mode' = "legacy"
            /\ pc' = LegacyEntry(FALSE)
            /\ UNCHANGED chapters
    /\ UNCHANGED <<pipeline, req_id, quota, inflight, tts_calls, scene_count,
                   scenes, idx, image_urls,
                   ref_url, video_urls, clip_paths, trimmed_paths, animVars, outVars,
                   fsVars, slideVars, adapterVars, pressVars>>

\* tts.generate_speech, then audio.mp3 is written.  Without audio the handler
\* returns; it has written nothing yet.
Speech(ok, after) ==
    /\ tts_calls' = tts_calls + 1
    /\ failures' = IF ok THEN failures ELSE failures \cup {"tts"}
    /\ IF ok
       THEN /\ files' = WriteFile(files, work_dir, AudioName, req_id)
            /\ pc' = after
            /\ UNCHANGED <<result, sceneVars, animVars>>
       ELSE /\ ReturnFailed
            /\ UNCHANGED files
    /\ UNCHANGED <<pipeline, req_id, yt_mode, quota, inflight, scene_count,
                   delivery,
                   user_data, prompts, pending, uploads, slideVars, adapterVars, pressVars>>

YtSpeech(ok) ==
    /\ pc = "yt_tts"
    /\ Speech(ok, "yt_slide")

\* Number of generate_slide calls a chapter may cost.
SLIDE_ATTEMPTS == 2

\* fal_api.generate_slide for one chapter: the visual prompt first, a simpler
\* prompt second; got is the attempt that returned a url, 0 if none did.
\* The else branch of the second "if url": no attempt returned a url.
SlideMissingIgnored(got) == FALSE

SlideMissing(got) == got = 0

GenerateSlide(got) ==
    /\ pc = "yt_slide"
    /\ idx < Len(chapters)
    /\ got \in 0..SLIDE_ATTEMPTS
    /\ LET k == idx + 1
       IN /\ failures' = IF got = 1 THEN failures ELSE failures \cup {"slide"}
          /\ IF SlideMissing(got)
             THEN CleanupAndFail
             ELSE /\ image_urls' = Append(image_urls,
                                          [scene |-> k, endpoint |-> "slide",
                                           ref |-> got])
                  /\ idx' = NextIdx(k, Len(chapters))
                  /\ pc' = NextPc(k, Len(chapters), "yt_slide", "yt_probe")
                  /\ UNCHANGED <<result, files, scenes, chapters, ref_url,
                                 video_urls, clip_paths, trimmed_paths,
                                 animVars>>
    /\ UNCHANGED <<reqVars, delivery, user_data, prompts, pending, uploads,
                   slideVars, adapterVars, pressVars>>

\* audio_dur = get_duration(audio_path); if audio_dur <= 0: cleanup, return.
\* Used by the handler and again by composite_slides_video / composite_video,
\* whose False makes the handler clean up and return.
ProbeAudio(positive, at, after) ==
    /\ pc = at
    /\ failures' = IF positive THEN failures ELSE failures \cup {"probe"}
    /\ IF positive
       THEN /\ pc' = after
            /\ UNCHANGED <<result, files, sceneVars, animVars>>
       ELSE CleanupAndFail
    /\ UNCHANGED <<reqVars, delivery, user_data, prompts, pending, uploads,
                   slideVars, adapterVars, pressVars>>

YtProbe(positive) == ProbeAudio(positive, "yt_probe", "yt_kb")

\* create_ken_burns_clips, one slide: the image is downloaded to slide_NN,
\* then _ken_burns_clip writes kb_NN.mp4.  Either failure returns [] and the
\* handler continues in _handle_legacy_from_audio with the audio it has.
KenBurnsClip(o) ==
    /\ pc = "yt_kb"
    /\ idx < Len(image_urls)
    /\ LET k == idx + 1
           slide == WriteFile(files, work_dir, <<"slide", k>>, req_id)
       IN CASE o = "ok" ->
                 /\ files' = WriteFile(slide, work_dir, <<"kb", k>>, req_id)
                 /\ clip_paths' = Append(clip_paths, <<"kb", k>>)
                 /\ idx' = NextIdx(k, Len(image_urls))
                 /\ pc' = NextPc(k, Len(image_urls), "yt_kb", "yt_cprobe")
                 /\ UNCHANGED <<yt_mode, failures>>
            [] o \in {"download", "kenburns"} ->
                 /\ files' = IF o = "download" THEN files ELSE slide
                 /\ failures' = failures \cup {o}
                 /\ clip_paths' = <<>>
                 /\ idx' = 0
                 /\ yt_mode' = "stock"
                 /\ pc' = LegacyEntry(TRUE)
    /\ UNCHANGED <<pipeline, req_id, quota, inflight, tts_calls, scene_count,
                   scenes, chapters,
                   image_urls, ref_url,
                   video_urls, trimmed_paths, animVars, outVars, user_data,
                   prompts, pending, uploads, slideVars, adapterVars, pressVars>>

YtCompositeProbe(positive) == ProbeAudio(positive, "yt_cprobe", "yt_xfade")

\* One ffmpeg pass of a compositor writing an intermediate or the output:
\* _run_ffmpeg returns False on a non-zero exit, a timeout or any exception.
FfmpegPass(ok, at, name, stage, after) ==
    /\ pc = at
    /\ failures' = IF ok THEN failures ELSE failures \cup {stage}
    /\ IF ok
       THEN /\ files' = WriteFile(files, work_dir, name, req_id)
            /\ pending' = IF name = FinalName(pipeline)
                          THEN pending \cup {Produced(output_path, req_id)}
                          ELSE pending
            /\ pc' = after
            /\ UNCHANGED <<result, sceneVars, animVars>>
       ELSE /\ CleanupAndFail
            /\ UNCHANGED pending
    /\ UNCHANGED <<reqVars, delivery, user_data, prompts, uploads, slideVars, adapterVars, pressVars>>

\* composite_slides_video: _concat_with_crossfades writes slides_concat.mp4,
\* then the mux writes final_video.mp4.
XfadeConcat(ok) ==
    FfmpegPass(ok, "yt_xfade", <<"slides_concat.mp4", 0>>, "concat", "yt_mux")

MuxSlides(ok) ==
    FfmpegPass(ok, "yt_mux", FinalName("youtube"), "mux", "deliver")

-----------------------------------------------------------------------------
(* youtube_video._handle_legacy and _handle_legacy_from_audio: stock footage *)

\* generate_youtube_script returns the script or None.
LgScript(ok) ==
    /\ pc = "lg_script"
    /\ failures' = IF ok THEN failures ELSE failures \cup {"script"}
    /\ IF ok
       THEN /\ pc' = "lg_tts"
            /\ UNCHANGED <<result, sceneVars, animVars>>
       ELSE ReturnFailed
    /\ UNCHANGED <<reqVars, delivery, fsVars, slideVars, adapterVars, pressVars>>

LgSpeech(ok) ==
    /\ pc = "lg_tts"
    /\ Speech(ok, "lg_footage")

FootageUrl(k) == [scene |-> k, prompt |-> NoPrompt]

\* pexels.get_footage_for_script, then pexels.get_footage: n urls in the end.
FindFootage(n) ==
    /\ pc = "lg_footage"
    /\ failures' = IF n > 0 THEN failures ELSE failures \cup {"footage"}
    /\ IF n > 0
       THEN /\ video_urls' = [k \in 1..n |-> FootageUrl(k)]
            /\ pc' = "lg_cprobe"
            /\ UNCHANGED <<result, files, scenes, chapters, idx, image_urls,
                           ref_url, clip_paths, trimmed_paths, animVars>>
       ELSE CleanupAndFail
    /\ UNCHANGED <<reqVars, delivery, user_data, prompts, pending, uploads,
                   slideVars, adapterVars, pressVars>>

LgCompositeProbe(positive) == ProbeAudio(positive, "lg_cprobe", "lg_download")

\* if not clip_paths: return False
PoolEmpty(paths, wanted) == paths = <<>>

\* _download_clips: a clip that fails to download is left out of the pool.
DownloadFootage(ok) ==
    /\ pc = "lg_download"
    /\ idx < Len(video_urls)
    /\ LET k == idx + 1
           paths == IF ok THEN Append(clip_paths, <<"clip", k>>)
                    ELSE clip_paths
           got == IF ok THEN WriteFile(files, work_dir, <<"clip", k>>, req_id)
                  ELSE files
       IN /\ failures' = IF ok THEN failures ELSE failures \cup {"download"}
          /\ IF k = Len(video_urls) /\ PoolEmpty(paths, Len(video_urls))
             THEN /\ files' = Cleanup(got, work_dir, NoName)
                  /\ ReturnFailed
             ELSE /\ files' = got
                  /\ clip_paths' = paths
                  /\ idx' = NextIdx(k, Len(video_urls))
                  /\ pc' = NextPc(k, Len(video_urls), "lg_download",
                                  "lg_concat")
                  /\ UNCHANGED <<result, scenes, chapters, image_urls, ref_url,
                                 video_urls, trimmed_paths, animVars>>
    /\ UNCHANGED <<reqVars, delivery, user_data, prompts, pending, uploads,
                   slideVars, adapterVars, pressVars>>

\* _concat_clips: all pooled clips of zero length, or concat.txt is written
\* and ffmpeg writes bg_full.mp4.
ConcatFootage(o) ==
    /\ pc = "lg_concat"
    /\ LET listed == WriteFile(files, work_dir, <<"concat.txt", 0>>, req_id)
       IN /\ failures' = IF o = "ok" THEN failures
                         ELSE failures \cup {"concat"}
          /\ CASE o = "ok" ->
                    /\ files' = WriteFile(listed, work_dir,
                                          <<"bg_full.mp4", 0>>, req_id)
                    /\ pc' = "lg_mux"
                    /\ UNCHANGED <<result, sceneVars, animVars>>
               [] o = "zero" -> CleanupAndFail
               [] o = "fail" ->
                    /\ files' = Cleanup(listed, work_dir, NoName)
                    /\ ReturnFailed
    /\ UNCHANGED <<reqVars, delivery, user_data, prompts, pending, uploads,
                   slideVars, adapterVars, pressVars>>

MuxFootage(ok) ==
    FfmpegPass(ok, "lg_mux", FinalName("youtube"), "mux", "deliver")

-----------------------------------------------------------------------------
(* Delivery: the tail of the handlers, youtube_video._deliver_video *)

\* 50 * 1024 * 1024
DeliveryCeiling == 50 * 1024 * 1024

FileSizes == {DeliveryCeiling, DeliveryCeiling + 1}

\* if file_size <= 50 * 1024 * 1024: send the bytes, else send the path
DeliveryModeBelowCeiling(file_size) ==
    IF file_size < DeliveryCeiling THEN "inline" ELSE "path"

DeliveryMode(file_size) ==
    IF file_size <= DeliveryCeiling THEN "inline" ELSE "path"

\* context.user_data after the handler stored the output: the animated and
\* tweet handlers store the path and the topic, _deliver_video also the
\* script.  Topic and script are identified by the request they belong to.
StoredUserData(p, ud, path, r) ==
    IF p = "youtube"
    THEN [last_video_path |-> path, last_video_topic |-> r,
          last_video_script |-> r]
    ELSE [ud EXCEPT !.last_video_path = path, !.last_video_topic = r]

\* The handler stores the output, sends it (the send may raise), cleans the
\* work area keeping the output, and offers publishing when configured.
\* os.path.getsize raises when there is no output file.
Deliver(file_size, send, available) ==
    /\ pc = "deliver"
    /\ IF ~PathExists(files, output_path)
       THEN /\ Crash
            /\ UNCHANGED <<delivery, files, user_data, prompts>>
       ELSE /\ user_data' = StoredUserData(pipeline, user_data, output_path,
                                           req_id)
            /\ IF send = "raise"
               THEN /\ Crash
                    /\ UNCHANGED <<delivery, files, prompts>>
               ELSE /\ delivery' = [mode |-> DeliveryMode(file_size),
                                     size |-> file_size]
                    /\ files' = Cleanup(files, work_dir, FinalName(pipeline))
                    /\ prompts' = IF available THEN prompts \cup {req_id}
                                  ELSE prompts
                    /\ pc' = "idle"
                    /\ result' = "delivered"
                    /\ DropLocals
    /\ UNCHANGED <<reqVars, failures, pending, uploads, slideVars, adapterVars, pressVars>>

-----------------------------------------------------------------------------
(* main.handle_youtube_upload: the buttons of a publish prompt *)

\* The outputs still awaited once the file at path has been disposed of.
Disposed(pend, path) ==
    {o \in pend : ~(o.dir = path.dir /\ o.name = path.name)}

\* The press edits the prompt message, which takes its buttons away; a press
\* sent before that edit still arrives, so a prompt can be pressed again.
\* "ytup_skip": the file last_video_path names is removed if it exists.
PressSkip(r) ==
    /\ pc = "idle"
    /\ r \in prompts
    /\ UNCHANGED prompts
    /\ last_press' = "skipped"
    /\ LET video_path == user_data.last_video_path
       IN IF video_path # NoPath /\ PathExists(files, video_path)
          THEN /\ files' = RemoveFile(files, video_path)
               /\ pending' = Disposed(pending, video_path)
          ELSE UNCHANGED <<files, pending>>
    /\ UNCHANGED <<pc, reqVars, sceneVars, animVars, failures, outVars,
                   user_data, uploads, slideVars, adapterVars>>

\* The request that wrote the file now at path.
WrittenBy(fs, path) ==
    (CHOOSE f \in fs : f.dir = path.dir /\ f.name = path.name).by

\* "ytup_public" / "ytup_unlisted" / "ytup_private": upload_video is called
\* with the stored path, topic and script; the file is removed whether or
\* not the upload succeeded.
PressUpload(r, ok) ==
    /\ pc = "idle"
    /\ r \in prompts
    /\ UNCHANGED prompts
    /\ LET video_path == user_data.last_video_path
       IN IF video_path = NoPath \/ ~PathExists(files, video_path)
          THEN /\ last_press' = "not_found"
               /\ UNCHANGED <<files, pending, uploads>>
          ELSE /\ last_press' = IF ok THEN "uploaded" ELSE "upload_failed"
               /\ uploads' = Append(uploads,
                                    [prompt |-> r,
                                     file_path |-> video_path,
                                     by |-> WrittenBy(files, video_path),
                                     topic |-> user_data.last_video_topic,
                                     script |-> user_data.last_video_script,
                                     ok |-> ok])
               /\ files' = RemoveFile(files, video_path)
               /\ pending' = Disposed(pending, video_path)
    /\ UNCHANGED <<pc, reqVars, sceneVars, animVars, failures, outVars,
                   user_data, slideVars, adapterVars>>

-----------------------------------------------------------------------------
(* The sequential program: one user, handlers run one after another *)

Pipelines == {"animated", "tweet", "youtube"}

SlidesIdle ==
    /\ spc = "off"
    /\ chapter_words = <<>>
    /\ audio_dur = NoDur
    /\ kb_clips = <<>>
    /\ fade_dur = DefaultFade
    /\ SlidesBlank

Init == PipeIdle /\ SlidesIdle /\ AdaptersIdle /\ quota = MaxRequests

Next ==
    \/ \E p \in Pipelines, n \in 1..MaxScenes : StartRequest(p, n)
    \/ \E ok \in BOOLEAN : AnalyzeTweet(ok)
    \/ \E o \in {"list", "none", "raise"}, m \in 1..MaxScenes : PlanScenes(o, m)
    \/ \E ok \in BOOLEAN : GenerateImage(ok)
    \/ \E keyed \in BOOLEAN : AnimateEnter(keyed)
    \/ \E o \in ProviderOutcomes : AnimCall(o)
    \/ \E o \in {"rewritten", "nothing", "raises"} : AnimSanitize(o)
    \/ AnimReturn
    \/ \E ok \in BOOLEAN : DownloadClip(ok)
    \/ \E o \in {"rc0", "rc1", "raise"} : TrimClip(o)
    \/ \E o \in {"rc0", "rc1", "raise"} : ConcatClips(o)
    \/ \E o \in {"chapters", "none"}, m \in 1..MaxScenes : YtScript(o, m)
    \/ \E ok \in BOOLEAN : YtSpeech(ok)
    \/ \E got \in 0..SLIDE_ATTEMPTS : GenerateSlide(got)
    \/ \E ok \in BOOLEAN : YtProbe(ok)
    \/ \E o \in {"ok", "download", "kenburns"} : KenBurnsClip(o)
    \/ \E ok \in BOOLEAN : YtCompositeProbe(ok)
    \/ \E ok \in BOOLEAN : XfadeConcat(ok)
    \/ \E ok \in BOOLEAN : MuxSlides(ok)
    \/ \E ok \in BOOLEAN : LgScript(ok)
    \/ \E ok \in BOOLEAN : LgSpeech(ok)
    \/ \E n \in 0..MaxFootage : FindFootage(n)
    \/ \E ok \in BOOLEAN : LgCompositeProbe(ok)
    \/ \E ok \in BOOLEAN : DownloadFootage(ok)
    \/ \E o \in {"ok", "zero", "fail"} : ConcatFootage(o)
    \/ \E ok \in BOOLEAN : MuxFootage(ok)
    \/ \E sz \in FileSizes, send \in {"ok", "raise"}, av \in BOOLEAN :
          Deliver(sz, send, av)
    \/ \E r \in 1..MaxRequests : PressSkip(r)
    \/ \E r \in 1..MaxRequests, ok \in BOOLEAN : PressUpload(r, ok)

Spec == Init /\ [][Next]_vars

\* One request, from a clean work area, and the presses that follow it.
InitOne == PipeIdle /\ SlidesIdle /\ AdaptersIdle /\ quota = 1

SpecOne == InitOne /\ [][Next]_vars

-----------------------------------------------------------------------------
(* Properties of animate_scene *)

ProviderCalls == SelectSeq(anim_log, LAMBDA e : e.op = "provider")
SanitizerCalls == SelectSeq(anim_log, LAMBDA e : e.op = "sanitizer")

\* animate_scene has returned to the handler, which has not yet looked at
\* the result.
AnimReturned == pc = "anim_ret"

\* The scene animate_scene is working on, or last worked on.
AnimScene == idx + 1

\* C4: one call of animate_scene calls the provider at most twice and the
\* sanitizer at most once; the sanitizer and the second provider call come
\* only after a first call that failed with the content-policy signature, and
\* the second call carries the sanitizer's prompt; the call returns an asset
\* exactly when its last provider call produced a video, so any other
\* failure, or a failure of the second call, returns nothing after no
\* further call; the handler keeps one asset per animated scene, and the
\* stored animation prompt of every scene stays the planned one.
C4_AnimateSceneContract ==
    /\ Len(ProviderCalls) <= 2
    /\ Len(SanitizerCalls) <= 1
    /\ Len(anim_log) >= 1 => anim_log[1].op = "provider"
    /\ Len(anim_log) >= 2 =>
          /\ anim_log[1].outcome = "content_policy_violation"
          /\ anim_log[2].op = "sanitizer"
    /\ Len(anim_log) >= 3 =>
          /\ anim_log[3].op = "provider"
          /\ anim_log[3].prompt =
                IF anim_log[2].outcome = "rewritten"
                THEN Rewritten(anim_log[1].prompt)
                ELSE anim_log[1].prompt
    /\ Len(anim_log) <= 3
    /\ AnimReturned =>
          /\ anim_result # NoUrl <=>
                /\ anim_log # <<>>
                /\ anim_log[Len(anim_log)].outcome = "video"
          /\ anim_result # NoUrl => anim_result.scene = AnimScene
          /\ Len(anim_log) = 1 =>
                anim_log[1].outcome # "content_policy_violation"
    /\ \A k \in 1..Len(video_urls) : video_urls[k].scene = k
    /\ \A k \in 1..Len(scenes) : scenes[k].animation_prompt = PlannedPrompt(k)

\* A second scene whose first call was flagged and whose sanitized retry
\* succeeded, after a first scene animated at once.
C4_Witness ==
    /\ AnimReturned
    /\ AnimScene = 2
    /\ Len(anim_log) = 3
    /\ anim_log[2].outcome = "rewritten"
    /\ anim_result = [scene |-> 2, prompt |-> Rewritten(PlannedPrompt(2))]
    /\ video_urls = <<[scene |-> 1, prompt |-> PlannedPrompt(1)]>>

\* C5: after a content-policy failure, when the rewrite fails (the text model
\* returns nothing or the call raises), animate_scene has still made its
\* second animation call, with the original prompt, by the time it returns.
C5_RewriteFailureStillRetries ==
    (AnimReturned /\ Len(SanitizerCalls) = 1
        /\ SanitizerCalls[1].outcome \in {"nothing", "raises"})
    => /\ Len(ProviderCalls) = 2
       /\ ProviderCalls[2].prompt = scenes[AnimScene].animation_prompt

-----------------------------------------------------------------------------
(* Properties of the handlers *)

SceneStages == {"plan", "image", "animate"}
AssemblyStages == {"download", "trim", "concat", "mux"}

Ended == pc = "idle" /\ result \in {"failed", "crashed"}

\* C6: in the animated and tweet handlers, once planning, an image or an
\* animation has failed, the handler is over (it returned after its failure
\* message, or the planner's exception ended it), so no later scene is
\* processed; no download, trim or concatenation has run, nothing was
\* written or produced by the request, and nothing was delivered.
C6_SceneFailureIsTerminal ==
    (pipeline \in {"animated", "tweet"} /\ failures \cap SceneStages # {})
    => /\ Ended
       /\ delivery = NoDelivery
       /\ failures \cap AssemblyStages = {}
       /\ \A f \in files : f.by # req_id
       /\ \A o \in pending : o.by # req_id
       /\ video_urls = <<>> /\ clip_paths = <<>> /\ trimmed_paths = <<>>

\* A tweet request whose animation failed after the analysis and the plan
\* succeeded.
C6_Witness ==
    /\ pipeline = "tweet"
    /\ failures = {"animate"}
    /\ Ended

\* C7: in every composition mode, once a download, trim, concatenation or
\* mux step of the request has failed, the request is not delivered.
C7_StepFailureFailsRequest ==
    failures \cap AssemblyStages # {} => result # "delivered"

\* The files of the work area the last request used.
WorkAreaFiles == {f \in files : f.dir = work_dir}

\* C8: after any exit of a handler, the work area of the request holds at
\* most the final output file.
C8_NoIntermediateLeft ==
    (pc = "idle" /\ req_id > 0)
    => \A f \in WorkAreaFiles : f.name = FinalName(pipeline)

\* C9: an output a request has produced stays on disk, as that request wrote
\* it, until a skip or a publish press disposes of it.
C9_OutputSurvives == \A o \in pending : StillOnDisk(files, o)

-----------------------------------------------------------------------------
(* Overlapping requests: the handlers' use of their work areas *)

\* A handler is entered for user u: work_dir = _get_work_dir(user_id).
ConcBegin(u, p) ==
    /\ req_id < MaxRequests
    /\ req_id' = req_id + 1
    /\ inflight' = inflight \cup {[id |-> req_id + 1, user |-> u,
                                   pipeline |-> p,
                                   work_dir |-> WorkDir(p, u)]}
    /\ UNCHANGED <<pc, pipeline, yt_mode, quota, tts_calls, scene_count, sceneVars,
                   animVars, failures, outVars, fsVars, slideVars, adapterVars, pressVars>>

\* A request in flight writes an intermediate or its output.
ConcWrite(r, final) ==
    /\ r \in inflight
    /\ files' = WriteFile(files, r.work_dir,
                          IF final THEN FinalName(r.pipeline)
                          ELSE <<"concat.txt", 0>>,
                          r.id)
    /\ UNCHANGED <<pc, reqVars, sceneVars, animVars, failures, outVars,
                   user_data, prompts, pending, uploads, slideVars, adapterVars, pressVars>>

\* A request in flight ends: _cleanup(work_dir) after a failure,
\* _cleanup(work_dir, keep_final=output_path) after delivery.
ConcEnd(r, delivered) ==
    /\ r \in inflight
    /\ files' = Cleanup(files, r.work_dir,
                        IF delivered THEN FinalName(r.pipeline) ELSE NoName)
    /\ inflight' = inflight \ {r}
    /\ UNCHANGED <<pc, pipeline, req_id, yt_mode, quota, tts_calls, scene_count,
                   sceneVars,
                   animVars, failures, outVars, user_data, prompts, pending,
                   uploads, slideVars, adapterVars, pressVars>>

InitConc == PipeIdle /\ SlidesIdle /\ AdaptersIdle /\ quota = 0

NextConc ==
    \/ \E u \in Users, p \in Pipelines : ConcBegin(u, p)
    \/ \E r \in inflight, final \in BOOLEAN : ConcWrite(r, final)
    \/ \E r \in inflight, delivered \in BOOLEAN : ConcEnd(r, delivered)

SpecConc == InitConc /\ [][NextConc]_vars

SameKey(r1, r2) == r1.user = r2.user /\ r1.pipeline = r2.pipeline

-----------------------------------------------------------------------------
(* Properties of the youtube handler's fallback *)

StockModes == {"legacy", "stock"}

\* The audio the request wrote is in its work area.
AudioOnDisk ==
    [dir |-> work_dir, name |-> AudioName, by |-> req_id] \in files

\* The output the request wrote is in its work area.
OutputOnDisk ==
    [dir |-> work_dir, name |-> FinalName(pipeline), by |-> req_id] \in files

\* Within one request the composition mode only ever changes from slides to
\* a stock-footage mode.
ModeStep ==
    (req_id' = req_id /\ yt_mode' # yt_mode)
        => (yt_mode = "slides" /\ yt_mode' \in StockModes)

\* C11: a youtube request leaves the slide pipeline for the stock-footage
\* pipeline at most once and never returns to it; speech synthesis is called
\* at most once per request; a request that switched after its speech
\* succeeded has made that one call and works on with the audio file it
\* wrote.
C11_OneFallbackOneSpeech ==
    /\ [][ModeStep]_vars
    /\ [](tts_calls <= 1)
    /\ []((yt_mode = "stock") => tts_calls = 1)
    /\ []((yt_mode = "stock" /\ pc \notin {"idle", "deliver"}) => AudioOnDisk)

\* A request delivered from stock footage after its slide clips failed.
C11_Witness ==
    /\ yt_mode = "stock"
    /\ tts_calls = 1
    /\ result = "delivered"

\* C12: a youtube request whose only failed stage is the structured script
\* runs in the flat-script stock-footage mode and does not end in failure:
\* it reaches delivery with the output the stock-footage composition wrote
\* (only the send itself can still raise), and that output stays in the work
\* area until a skip or publish press disposes of it.
C12_LegacyFallbackDelivers ==
    (pipeline = "youtube" /\ failures = {"structured"})
    => /\ yt_mode = "legacy"
       /\ result # "failed"
       /\ pc = "deliver" => OutputOnDisk
       /\ pc = "idle" =>
             /\ result \in {"delivered", "crashed"}
             /\ user_data.last_video_path = output_path
             /\ OutputOnDisk <=> Produced(output_path, req_id) \in pending

\* The fallback request delivered.
C12_Witness ==
    /\ pipeline = "youtube"
    /\ failures = {"structured"}
    /\ result = "delivered"
    /\ OutputOnDisk

-----------------------------------------------------------------------------
(* Job adapters: kling.create_video / poll_video, runway.create_avatar /
   poll_avatar, and their caller short_video.handle *)

Providers == {"kling", "runway"}

\* range(60) in poll_video, range(120) in poll_avatar
MAX_POLLS_KLING == 60
MAX_POLLS_RUNWAY == 120

MaxPolls(p) == IF p = "kling" THEN MAX_POLLS_KLING ELSE MAX_POLLS_RUNWAY

\* asyncio.sleep(10) in poll_video, asyncio.sleep(5) in poll_avatar
SLEEP_KLING == 10
SLEEP_RUNWAY == 5

SleepSeconds(p) == IF p = "kling" THEN SLEEP_KLING ELSE SLEEP_RUNWAY

\* requests.get(..., timeout=10): the longest a poll request waits
POLL_TIMEOUT == 10

\* The job at the provider: running, or in one of its final states
\* (finished with or without a result url, failed, cancelled).
JobStates == {"pending", "succeed", "succeed_empty", "failed", "cancelled"}
TerminalJobs == JobStates \ {"pending"}

JobMoves(j) == IF j = "pending" THEN JobStates ELSE {j}

\* The status string of a response, as each provider spells it.
StatusText(p, j) ==
    IF p = "kling"
    THEN CASE j = "pending" -> "processing"
           [] j \in {"succeed", "succeed_empty"} -> "succeed"
           [] j = "failed" -> "failed"
           [] j = "cancelled" -> "cancelled"
    ELSE CASE j = "pending" -> "RUNNING"
           [] j \in {"succeed", "succeed_empty"} -> "SUCCEEDED"
           [] j = "failed" -> "FAILED"
           [] j = "cancelled" -> "CANCELLED"

SuccessText(p) == IF p = "kling" THEN "succeed" ELSE "SUCCEEDED"

\* elif status == "failed" / elif status in ("FAILED", "ERROR")
FailureTexts(p) == IF p = "kling" THEN {"failed"} ELSE {"FAILED", "ERROR"}

\* One pass of the loop body on a response: the url, None, or "continue"
\* (fall through to the sleep).  A transport error is caught by the except
\* clause; a status code other than 200 is skipped by the if.
PollOutcomeFailsOnError(p, resp, status, has_url) ==
    IF resp # "ok" THEN "None"
    ELSE IF status = SuccessText(p) THEN (IF has_url THEN "url" ELSE "None")
    ELSE IF status \in FailureTexts(p) THEN "None"
    ELSE "continue"

PollOutcome(p, resp, status, has_url) ==
    IF resp # "ok" THEN "continue"
    ELSE IF status = SuccessText(p) THEN (IF has_url THEN "url" ELSE "None")
    ELSE IF status \in FailureTexts(p) THEN "None"
    ELSE "continue"

\* poll_video edits the status message on every third attempt, inside the
\* try, before it looks at the status; poll_avatar only logs.
EditsProgress(p, att) == p = "kling" /\ att % 3 = 0

\* response.json().get("data", {}).get("task_id") / response.json().get("id")
\* on status 200; None on any other status, without an id, or on an
\* exception.
TaskIdAssumed(o) == "task"

TaskId(o) == IF o = "id" THEN "task" ELSE "None"

CreateOutcomes == {"id", "non200", "no_id", "raise"}

\* create_video / create_avatar and the caller's "if not task_id: return".
SubmitJob(o) ==
    /\ jpc = "create"
    /\ creates' = creates + 1
    /\ create_out' = o
    /\ IF TaskId(o) = "None"
       THEN /\ jpc' = "over"
            /\ jresult' = "None"
            /\ UNCHANGED <<job, calls>>
       ELSE /\ jpc' = "poll"
            /\ job' = "pending"
            /\ calls' = 1
            /\ UNCHANGED jresult
    /\ UNCHANGED <<provider, jattempt, polls, last_resp, had_error, elapsed,
                   first_result, slideVars, pipeVars, scriptVars, toolVars>>

\* for attempt in range(N): ... return None
LoopOverNever(att, max) == FALSE

LoopOver(att, max) == att >= max

\* One poll request and the loop body: the request meets a transport error,
\* a non-200 status or a 200 with the job's status, after up to POLL_TIMEOUT
\* seconds; the progress edit of poll_video may raise as well.
PollRequest(resp, slow, edit_ok, j) ==
    /\ jpc = "poll"
    /\ polls' = polls + 1
    /\ elapsed' = elapsed + (IF slow THEN POLL_TIMEOUT ELSE 0)
    /\ j \in JobMoves(job)
    /\ LET edit_raised == /\ resp = "ok"
                          /\ EditsProgress(provider, jattempt)
                          /\ ~edit_ok
           out == IF edit_raised THEN "continue"
                  ELSE PollOutcome(provider, resp, StatusText(provider, j),
                                   j = "succeed")
       IN /\ job' = j
          /\ last_resp' = IF edit_raised THEN "edit_error"
                          ELSE IF resp = "ok" THEN j ELSE resp
          /\ had_error' = (had_error \/ resp # "ok" \/ edit_raised)
          /\ IF out = "continue"
             THEN /\ jpc' = "sleep"
                  /\ UNCHANGED jresult
             ELSE /\ jpc' = "returned"
                  /\ jresult' = out
    /\ UNCHANGED <<provider, create_out, creates, calls, jattempt,
                   first_result, slideVars, pipeVars, scriptVars>>

Poll(resp, slow, edit_ok) ==
    /\ \E j \in JobMoves(job) : PollRequest(resp, slow, edit_ok, j)
    /\ UNCHANGED toolVars

\* The same poll, with what became of the progress sink written down:
\* whether this pass invoked it, and the result the pass had read when the
\* sink raised.
PollWatched(resp, slow, edit_ok) ==
    \E j \in JobMoves(job) :
        LET invoked == resp = "ok" /\ EditsProgress(provider, jattempt)
            read == PollOutcome(provider, resp, StatusText(provider, j),
                                j = "succeed")
        IN /\ PollRequest(resp, slow, edit_ok, j)
           /\ sink_called' = invoked
           /\ lost' = IF invoked /\ ~edit_ok /\ read # "continue"
                          /\ lost = "none"
                      THEN read ELSE lost
           /\ UNCHANGED <<keyVars, concatVars, speechVars, countVars,
                          motionVars>>

InitSink ==
    /\ PipeIdle
    /\ SlidesIdle
    /\ ScriptIdle
    /\ ToolsIdle
    /\ quota = 0
    /\ jpc = "create"
    /\ provider = "kling"
    /\ job = "none"
    /\ create_out = "none"
    /\ creates = 0
    /\ calls = 0
    /\ jattempt = 0
    /\ polls = 0
    /\ last_resp = "none"
    /\ had_error = FALSE
    /\ elapsed = 0
    /\ jresult = "none"
    /\ first_result = "none"

\* await asyncio.sleep(...), then the next attempt or the end of the loop.
Sleep ==
    /\ jpc = "sleep"
    /\ elapsed' = elapsed + SleepSeconds(provider)
    /\ jattempt' = jattempt + 1
    /\ IF LoopOver(jattempt + 1, MaxPolls(provider))
       THEN /\ jpc' = "returned"
            /\ jresult' = "None"
       ELSE /\ jpc' = "poll"
            /\ UNCHANGED jresult
    /\ UNCHANGED <<provider, job, create_out, creates, calls, polls,
                   last_resp, had_error, first_result, slideVars, pipeVars, scriptVars, toolVars>>

\* The poll function is called once more for a job whose final state the
\* first call has seen.
PollAgain ==
    /\ jpc = "returned"
    /\ calls = 1
    /\ job \in TerminalJobs
    /\ last_resp = job
    /\ first_result' = jresult
    /\ calls' = 2
    /\ jattempt' = 0
    /\ polls' = 0
    /\ elapsed' = 0
    /\ had_error' = FALSE
    /\ last_resp' = "none"
    /\ jresult' = "none"
    /\ jpc' = "poll"
    /\ UNCHANGED <<provider, job, create_out, creates, slideVars, pipeVars,
                   scriptVars, toolVars>>

InitPoll ==
    /\ PipeIdle
    /\ SlidesIdle
    /\ ScriptIdle
    /\ ToolsIdle
    /\ quota = 0
    /\ jpc = "create"
    /\ provider \in Providers
    /\ job = "none"
    /\ create_out = "none"
    /\ creates = 0
    /\ calls = 0
    /\ jattempt = 0
    /\ polls = 0
    /\ last_resp = "none"
    /\ had_error = FALSE
    /\ elapsed = 0
    /\ jresult = "none"
    /\ first_result = "none"

NextPoll ==
    \/ \E o \in CreateOutcomes : SubmitJob(o)
    \/ \E resp \in {"transport", "http", "ok"}, slow \in BOOLEAN,
          edit_ok \in BOOLEAN : Poll(resp, slow, edit_ok)
    \/ Sleep
    \/ PollAgain

SpecPoll == InitPoll /\ [][NextPoll]_vars

\* One call of kling.poll_video, its progress sink watched.
NextSink ==
    \/ \E o \in CreateOutcomes : SubmitJob(o)
    \/ \E resp \in {"transport", "http", "ok"}, slow \in BOOLEAN,
          edit_ok \in BOOLEAN : PollWatched(resp, slow, edit_ok)
    \/ Sleep

SpecSink == InitSink /\ [][NextSink]_vars

-----------------------------------------------------------------------------
(* Claims about the job adapters *)

PollReturned == jpc = "returned"

\* C13: polling always ends: poll_video issues at most 60 polls and
\* poll_avatar at most 120, whatever the provider answers, and a call that
\* returns while the job never left its running state returns failure,
\* after exactly that many polls.
C13_PollingBounded ==
    /\ polls <= MaxPolls(provider)
    /\ jattempt <= MaxPolls(provider)
    /\ (jpc \in {"poll", "sleep"}) => jattempt < MaxPolls(provider)
    /\ (PollReturned /\ job = "pending") =>
          /\ jresult = "None"
          /\ polls = MaxPolls(provider)

C13_Witness ==
    /\ PollReturned
    /\ job = "pending"
    /\ had_error
    /\ polls = MaxPolls(provider)
    /\ jresult = "None"

\* The time the loop is meant to take: its polls times its interval.
JobTimeout(p) == MaxPolls(p) * SleepSeconds(p)

\* C14: the time spent in poll_video / poll_avatar never exceeds the job's
\* timeout, however long the individual poll requests take.
C14_DeadlineFromSubmission ==
    (jpc \in {"poll", "sleep", "returned"}) => elapsed <= JobTimeout(provider)

PollErrors == {"transport", "http"}

C16_TerminalFailureReturnsAtOnce ==
    (last_resp \in {"failed", "cancelled"}) =>
        (PollReturned /\ jresult = "None")

\* C17: a second call for a job whose final state the first call has seen
\* returns what the first call returned, on its first poll (when that poll
\* meets no error), and no job is submitted for it.
C17_SecondCallSameResult ==
    (calls = 2 /\ ~had_error /\ jpc \in {"sleep", "returned"}) =>
        /\ PollReturned
        /\ polls = 1
        /\ jresult = first_result
        /\ creates = 1

SubmissionFailures == {"non200", "no_id", "raise"}

\* C18: a submission that meets a non-200 status, a response without a job
\* id or an exception is not repeated, no poll follows it and the request
\* ends in failure.
C18_SubmissionFailureIsFinal ==
    (create_out \in SubmissionFailures) =>
        /\ creates = 1
        /\ calls = 0
        /\ polls = 0
        /\ jpc = "over"
        /\ jresult = "None"

C18_Witness ==
    /\ create_out = "no_id"
    /\ creates = 1
    /\ jpc = "over"
    /\ jresult = "None"

-----------------------------------------------------------------------------
(* Script adapters: haiku.generate_youtube_script,
   grok.generate_youtube_script, openai_api.generate_youtube_script and
   haiku.generate_youtube_script_structured *)

Adapters == {"haiku", "grok", "openai", "structured"}

WORDS_PER_MINUTE == 150

\* target_words = minutes * WORDS_PER_MINUTE
TargetWords(m) == m * WORDS_PER_MINUTE

\* if word_count < target_words * 0.6: the float product equals the exact
\* six tenths for every whole target, so the test is the integer one.
ShortInclusive(w, t) == 10 * w <= 6 * t

Short(w, t) == 10 * w < 6 * t

\* What a model call gives back: the request raises; no text comes back
\* (_call_haiku returns None on a non-200 status, message.content is None);
\* the text is the empty string; or it is a text.
CallOutcomes == {"raise", "error", "empty", "text"}

\* What the text of a structured response decodes to, after the code
\* fence is stripped: not JSON; JSON that is no object; an object without
\* "chapters"; chapters that are no objects; or a list of chapter objects
\* (whose fields the code reads with .get and a default).
Shapes == {"not_json", "not_object", "no_chapters", "bad_items", "chapters"}

\* Whether the generator holds a script after the first call.  The haiku
\* generators return on "if not script"; grok and openai split whatever
\* content they got, which raises on None and counts no words in "".
GotScript(a, o) ==
    \/ o = "text"
    \/ o = "empty" /\ a \in {"grok", "openai"}

\* json.loads, the isinstance / "chapters" test and the word count over
\* ch.get("narration", "") all pass.
ParsesToChapters(sh) == sh = "chapters"

\* if not ANTHROPIC_API_KEY / if not grok_client: return None
NotConfigured ==
    /\ gpc = "call"
    /\ adapter # "openai"
    /\ gpc' = "done"
    /\ gresult' = "None"
    /\ UNCHANGED <<adapter, minutes, first_words, script_words, cont_calls,
                   first_shape, ext_shape, data_from, slideVars, pipeVars,
                   jobVars, toolVars>>

\* The first model call, the parse of a structured response, the word
\* count and the length test.
FirstCall(o, w, sh) ==
    /\ gpc = "call"
    /\ LET structured == adapter = "structured"
           words == IF o = "empty" THEN 0 ELSE w
           usable == /\ GotScript(adapter, o)
                     /\ structured => ParsesToChapters(sh)
       IN /\ first_shape' = IF structured /\ GotScript(adapter, o)
                            THEN sh ELSE "none"
          /\ IF usable
             THEN /\ first_words' = words
                  /\ script_words' = words
                  /\ IF Short(words, TargetWords(minutes))
                     THEN /\ gpc' = "extend"
                          /\ UNCHANGED <<gresult, data_from>>
                     ELSE /\ gpc' = "done"
                          /\ gresult' = IF structured THEN "data" ELSE "script"
                          /\ data_from' = IF structured THEN "initial"
                                          ELSE "none"
             ELSE /\ gpc' = "done"
                  /\ gresult' = "None"
                  /\ UNCHANGED <<first_words, script_words, data_from>>
    /\ UNCHANGED <<adapter, minutes, cont_calls, ext_shape, slideVars,
                   pipeVars, jobVars, toolVars>>

\* if isinstance(ext_data, dict) and "chapters" in ext_data: data = ext_data
ExtensionReplacesAnyJson(sh) == sh # "not_json"

ExtensionReplaces(sh) == sh \in {"chapters", "bad_items"}

\* The continuation call of a flat script: the text is appended.  haiku
\* keeps the script when nothing comes back; grok and openai raise when
\* they append None.
ContinueFlat(o, w) ==
    /\ adapter # "structured"
    /\ IF o = "raise" \/ (o = "error" /\ adapter # "haiku")
       THEN /\ gresult' = "None"
            /\ UNCHANGED script_words
       ELSE /\ gresult' = "script"
            /\ script_words' = IF o = "text" THEN script_words + w
                               ELSE script_words
    /\ UNCHANGED <<ext_shape, data_from>>

\* The extension call of a structured script: a response that decodes to
\* an object with "chapters" replaces the data (and its word count raises
\* when the chapters are no objects); any other response leaves the data
\* of the first response in place.
ContinueStructured(o, w, sh) ==
    /\ adapter = "structured"
    /\ ext_shape' = IF o = "text" THEN sh ELSE "none"
    /\ IF o = "raise"
       THEN /\ gresult' = "None"
            /\ UNCHANGED <<script_words, data_from>>
       ELSE IF o = "text" /\ ExtensionReplaces(sh)
       THEN IF sh = "bad_items"
            THEN /\ gresult' = "None"
                 /\ UNCHANGED <<script_words, data_from>>
            ELSE /\ gresult' = "data"
                 /\ data_from' = "extension"
                 /\ script_words' = w
       ELSE /\ gresult' = "data"
            /\ data_from' = "initial"
            /\ UNCHANGED script_words

\* The one continuation call; the generator returns after it without
\* testing the length again.
Continue(o, w, sh) ==
    /\ gpc = "extend"
    /\ cont_calls' = cont_calls + 1
    /\ gpc' = "done"
    /\ \/ ContinueFlat(o, w)
       \/ ContinueStructured(o, w, sh)
    /\ UNCHANGED <<adapter, minutes, first_words, first_shape, slideVars,
                   pipeVars, jobVars, toolVars>>

\* Word counts a continuation may bring: none, one, the words asked for.
ContinuationWords(t, w) == {0, 1, t - w}

InitScript ==
    /\ PipeIdle
    /\ SlidesIdle
    /\ JobIdle
    /\ ToolsIdle
    /\ quota = 0
    /\ gpc = "call"
    /\ adapter \in Adapters
    /\ minutes \in 1..MaxMinutes
    /\ first_words = -1
    /\ script_words = -1
    /\ cont_calls = 0
    /\ first_shape = "none"
    /\ ext_shape = "none"
    /\ data_from = "none"
    /\ gresult = "none"

NextScript ==
    \/ NotConfigured
    \/ \E o \in CallOutcomes, w \in 0..TargetWords(minutes), sh \in Shapes :
          FirstCall(o, w, sh)
    \/ \E o \in CallOutcomes, sh \in Shapes,
          w \in ContinuationWords(TargetWords(minutes), first_words) :
          Continue(o, w, sh)

SpecScript == InitScript /\ [][NextScript]_vars

-----------------------------------------------------------------------------
(* Claims about the script adapters *)

HoldsScript == first_words >= 0

MateriallyShort == 100 * first_words < 60 * TargetWords(minutes)

\* C19: in each of the four script generators, once the first call has
\* yielded a script, exactly one continuation call is issued when it has
\* fewer words than 60% of the target and none when it has at least 60%;
\* after the continuation the generator returns, so there is never a
\* second one.
C19_OneContinuationBelowSixty ==
    /\ cont_calls <= 1
    /\ ~HoldsScript => cont_calls = 0
    /\ (gpc = "extend") => (HoldsScript /\ MateriallyShort /\ cont_calls = 0)
    /\ (gpc = "done" /\ HoldsScript) =>
          cont_calls = (IF MateriallyShort THEN 1 ELSE 0)

C19_Witness ==
    /\ gpc = "done"
    /\ cont_calls = 1
    /\ gresult \in {"script", "data"}
    /\ 100 * script_words < 60 * TargetWords(minutes)

Unparsed == Shapes \ {"chapters"}

StructuredDone == adapter = "structured" /\ gpc = "done"

-----------------------------------------------------------------------------
(* Credentials: which operations look at their credential before they call
   the provider *)

Credentials == {"fal", "anthropic", "xai", "elevenlabs"}

\* The operations that call a provider whose credential config.py reads
\* with a default of "": fal_api.generate_image, generate_slide,
\* animate_scene and _sanitize_prompt, the haiku and grok script generators,
\* _generate_scenes, _generate_scenes_from_tweet and tts.generate_speech.
Operations ==
    {"image", "slide", "animation", "sanitizer", "script_haiku",
     "script_grok", "script_structured", "plan_animated", "plan_tweet",
     "speech"}

Credential(o) ==
    CASE o \in {"image", "slide", "animation"} -> "fal"
      [] o = "script_grok" -> "xai"
      [] o = "speech" -> "elevenlabs"
      [] OTHER -> "anthropic"

\* "if not FAL_KEY: return None", "if not ANTHROPIC_API_KEY: return None",
\* "if not grok_client: return None" open the function; _sanitize_prompt,
\* _generate_scenes, _generate_scenes_from_tweet and generate_speech go
\* straight to the request.
ChecksCredential(o) ==
    o \in {"image", "slide", "animation", "script_haiku", "script_grok",
           "script_structured"}

\* What the operation returns when its call fails: _sanitize_prompt gives
\* the prompt back, every other operation None.
FailureResult(o) == IF o = "sanitizer" THEN "prompt" ELSE "None"

\* One invocation.  A provider called without its credential rejects the
\* request.
Invoke(o, answer) ==
    /\ op' = o
    /\ LET configured == Credential(o) \in keys
       IN IF ChecksCredential(o) /\ ~configured
          THEN /\ net_calls' = 0
               /\ op_result' = "None"
          ELSE /\ net_calls' = 1
               /\ op_result' = IF configured /\ answer = "ok"
                               THEN "value" ELSE FailureResult(o)
    /\ UNCHANGED <<keys, slideVars, pipeVars, jobVars, scriptVars, concatVars,
                   speechVars, countVars, motionVars, sinkVars>>

InitKeys ==
    /\ PipeIdle
    /\ SlidesIdle
    /\ JobIdle
    /\ ScriptIdle
    /\ ConcatIdle
    /\ SpeechIdle
    /\ CountIdle
    /\ MotionIdle
    /\ SinkIdle
    /\ quota = 0
    /\ keys \in SUBSET Credentials
    /\ op = "none"
    /\ net_calls = 0
    /\ op_result = "none"

NextKeys == \E o \in Operations, answer \in {"ok", "error"} : Invoke(o, answer)

SpecKeys == InitKeys /\ [][NextKeys]_vars

\* C21: an operation whose provider's credential is not configured returns
\* its unavailable result and issues no network call.
C21_UnavailableWithoutCall ==
    (op # "none" /\ Credential(op) \notin keys) =>
        (net_calls = 0 /\ op_result = "None")

-----------------------------------------------------------------------------
(* Claims about the image loop *)

ScenePipelines == {"animated", "tweet"}

\* The images generated so far follow the reference rule.
ReferenceRule ==
    \A k \in 1..Len(image_urls) :
        /\ image_urls[k].scene = k
        /\ k = 1 => (image_urls[k].endpoint = "gen" /\ image_urls[k].ref = 0)
        /\ k > 1 => (image_urls[k].endpoint = "edit" /\ image_urls[k].ref = 1)

ReferenceIsFirstImage ==
    ref_url = (IF image_urls = <<>> THEN NoImage ELSE image_urls[1])

\* C22: in the animated and tweet handlers the first scene's image is
\* generated without a reference through the plain endpoint, every later
\* scene through the edit endpoint with the first scene's image as the
\* reference, and the reference, once set, is not replaced while the
\* handler runs.
C22_ReferenceIsSceneZero ==
    /\ []((pipeline \in ScenePipelines) =>
             (ReferenceRule /\ ReferenceIsFirstImage))
    /\ [][(ref_url # NoImage /\ ref_url' # NoImage) => ref_url' = ref_url]_vars

C22_Witness ==
    /\ pipeline \in ScenePipelines
    /\ pc = "animate"
    /\ Len(image_urls) >= 2
    /\ image_urls[2].endpoint = "edit"
    /\ image_urls[2].ref = 1
    /\ ref_url = image_urls[1]

-----------------------------------------------------------------------------
(* Claims about planning *)

\* C23: the scene list handed to image generation in the animated and
\* tweet handlers has exactly the requested number of scenes.
C23_PlanHasRequestedSize ==
    (pipeline \in ScenePipelines /\ pc \in {"image", "animate"}) =>
        Len(scenes) = scene_count

-----------------------------------------------------------------------------
(* Claims about delivery *)

Delivered == delivery # NoDelivery

-----------------------------------------------------------------------------
(* Claims about publishing *)

Pressed == last_press # "none"

StoredOutputOnDisk ==
    /\ user_data.last_video_path # NoPath
    /\ PathExists(files, user_data.last_video_path)

-----------------------------------------------------------------------------
(* utils.video._concat_clips: the clip list that fills the audio duration *)

\* Durations get_duration may report for a clip, in seconds; 0 is what it
\* returns for a file it cannot probe.
PoolDurations == {0, 1, 2}

Shuffles(n) ==
    {f \in [1..n -> 1..n] : \A i, j \in 1..n : i # j => f[i] # f[j]}

\* if dur <= 0: continue
SkipsNothing(dur) == FALSE

Skips(dur) == dur <= 0

notConcatVars == <<slideVars, pipeVars, jobVars, scriptVars, keyVars, speechVars,
                   countVars, motionVars, sinkVars>>

\* "if not clip_paths: return False", the durations, "if total <= 0: return
\* False", and accumulated = 0.0.
ConcatEnter ==
    /\ cpc = "enter"
    /\ IF pool = <<>> \/ SumInts(pool) <= 0
       THEN /\ cpc' = "returned"
            /\ concat_result' = "False"
       ELSE /\ cpc' = "while"
            /\ UNCHANGED concat_result
    /\ UNCHANGED <<pool, target_duration, indexed, pos, passes, accumulated,
                   notConcatVars>>

\* while accumulated < target_duration: random.shuffle(indexed)
WhileTest ==
    /\ cpc = "while"
    /\ IF accumulated < target_duration
       THEN /\ indexed' \in Shuffles(Len(pool))
            /\ pos' = 0
            /\ passes' = Append(passes, <<>>)
            /\ cpc' = "for"
       ELSE /\ cpc' = "ffmpeg"
            /\ UNCHANGED <<indexed, pos, passes>>
    /\ UNCHANGED <<pool, target_duration, accumulated, concat_result, notConcatVars>>

\* One clip of "for path, dur in indexed": skipped, or written to the list
\* and added, with the break once the target is met.
ForStep ==
    /\ cpc = "for"
    /\ IF pos = Len(indexed)
       THEN /\ cpc' = "while"
            /\ UNCHANGED <<pos, passes, accumulated>>
       ELSE LET i == indexed[pos + 1]
                dur == pool[i]
            IN /\ pos' = pos + 1
               /\ IF Skips(dur)
                  THEN UNCHANGED <<cpc, passes, accumulated>>
                  ELSE /\ passes' = [passes EXCEPT ![Len(passes)] =
                                        Append(@, i)]
                       /\ accumulated' = accumulated + dur
                       /\ cpc' = IF accumulated + dur >= target_duration
                                 THEN "while" ELSE "for"
    /\ UNCHANGED <<pool, target_duration, indexed, concat_result, notConcatVars>>

\* return _run_ffmpeg(cmd)
RunConcat(ok) ==
    /\ cpc = "ffmpeg"
    /\ cpc' = "returned"
    /\ concat_result' = IF ok THEN "True" ELSE "False"
    /\ UNCHANGED <<pool, target_duration, indexed, pos, passes, accumulated,
                   notConcatVars>>

InitConcat ==
    /\ PipeIdle
    /\ SlidesIdle
    /\ JobIdle
    /\ ScriptIdle
    /\ KeysIdle
    /\ SpeechIdle
    /\ CountIdle
    /\ MotionIdle
    /\ SinkIdle
    /\ quota = 0
    /\ cpc = "enter"
    /\ pool \in SeqsUpTo(PoolDurations, MaxPool)
    /\ target_duration \in 1..MaxTarget
    /\ indexed = <<>>
    /\ pos = 0
    /\ passes = <<>>
    /\ accumulated = 0
    /\ concat_result = "none"

NextConcat ==
    \/ ConcatEnter
    \/ WhileTest
    \/ ForStep
    \/ \E ok \in BOOLEAN : RunConcat(ok)

SpecConcat == InitConcat /\ [][NextConcat]_vars

\* The function runs to its return: no step of it waits for anything.
FairSpecConcat == SpecConcat /\ WF_vars(NextConcat)

-----------------------------------------------------------------------------
(* Claims about the clip list *)

RECURSIVE Flatten(_)
Flatten(ss) == IF ss = <<>> THEN <<>> ELSE Head(ss) \o Flatten(Tail(ss))

Listed == Flatten(passes)

ListedDuration == SumInts([k \in 1..Len(Listed) |-> pool[Listed[k]]])

PositiveClips == {i \in 1..Len(pool) : pool[i] > 0}

NoRepeat(pass) == \A a, b \in 1..Len(pass) : a # b => pass[a] # pass[b]

Range(f) == {f[x] : x \in DOMAIN f}

ListBuilt == cpc \in {"ffmpeg", "returned"} /\ passes # <<>>

\* What holds of the list while and after it is built.
ListRules ==
    /\ accumulated = ListedDuration
    /\ \A k \in 1..Len(Listed) : pool[Listed[k]] > 0
    /\ \A n \in 1..Len(passes) :
          /\ NoRepeat(passes[n])
          /\ n < Len(passes) => Range(passes[n]) = PositiveClips
    /\ ListBuilt =>
          /\ accumulated >= target_duration
          /\ accumulated - pool[Listed[Len(Listed)]] < target_duration
    /\ (pool = <<>> \/ PositiveClips = {}) =>
          /\ passes = <<>>
          /\ cpc \in {"enter", "returned"}
          /\ cpc = "returned" => concat_result = "False"

\* C26: for every pool and every target duration above zero, _concat_clips
\* returns; the listed clips add up to at least the target and to less
\* than it without the last one; no clip of duration zero is listed; every
\* complete pass lists each clip of positive duration exactly once; and an
\* empty pool or one whose durations are all zero returns failure with
\* nothing listed.
C26_ListFillsTarget == []ListRules /\ <>(cpc = "returned")

C26_Witness ==
    /\ cpc = "returned"
    /\ concat_result = "True"
    /\ Len(passes) >= 2
    /\ \E i \in 1..Len(pool) : pool[i] = 0
    /\ accumulated > target_duration

-----------------------------------------------------------------------------
(* apis.tts: _split_text and the chunk loop of generate_speech.  A text is a
   sequence of characters. *)

Alphabet == {"a", ".", " ", "\n"}

Whitespace == {" ", "\n"}

\* text.replace("\n", " ")
ReplaceNewlines(t) == [i \in 1..Len(t) |-> IF t[i] = "\n" THEN " " ELSE t[i]]

\* str.split(". "): the pieces between the occurrences of ". ", found from
\* the left without overlap.
RECURSIVE SplitFrom(_, _, _)
SplitFrom(t, i, piece) ==
    IF i > Len(t) THEN <<piece>>
    ELSE IF i < Len(t) /\ t[i] = "." /\ t[i + 1] = " "
    THEN <<piece>> \o SplitFrom(t, i + 2, <<>>)
    ELSE SplitFrom(t, i + 1, Append(piece, t[i]))

SplitSentences(t) == SplitFrom(t, 1, <<>>)

RECURSIVE LStrip(_, _)
LStrip(t, cs) ==
    IF t # <<>> /\ Head(t) \in cs THEN LStrip(Tail(t), cs) ELSE t

RECURSIVE RStrip(_, _)
RStrip(t, cs) ==
    IF t # <<>> /\ t[Len(t)] \in cs
    THEN RStrip(SubSeq(t, 1, Len(t) - 1), cs) ELSE t

\* str.strip()
Strip(t) == RStrip(LStrip(t, Whitespace), Whitespace)

\* f"{current}. {sentence}" if current else sentence
Candidate(current, sentence) ==
    IF current # <<>> THEN current \o <<".", " ">> \o sentence ELSE sentence

\* current = sentence, after the full chunk was appended
CarryNothing(sentence) == <<>>

Carry(sentence) == sentence

\* for sentence in sentences: ...
RECURSIVE SplitLoop(_, _, _, _)
SplitLoop(sentences, current, out, limit) ==
    IF sentences = <<>>
    THEN IF Strip(current) # <<>> THEN Append(out, Strip(current)) ELSE out
    ELSE LET sentence == Head(sentences)
             candidate == Candidate(current, sentence)
         IN IF Len(candidate) > limit /\ current # <<>>
            THEN SplitLoop(Tail(sentences), Carry(sentence),
                           Append(out, Strip(current)), limit)
            ELSE SplitLoop(Tail(sentences), candidate, out, limit)

\* text[:max_chars]
Truncate(t, limit) == SubSeq(t, 1, IF Len(t) < limit THEN Len(t) ELSE limit)

\* _split_text(text, max_chars)
SplitText(t, limit) ==
    LET found == SplitLoop(SplitSentences(ReplaceNewlines(t)), <<>>, <<>>,
                           limit)
    IN IF found # <<>> THEN found ELSE <<Truncate(t, limit)>>

notSpeechVars == <<slideVars, pipeVars, jobVars, scriptVars, keyVars, concatVars,
                   countVars, motionVars, sinkVars>>

\* chunks = _split_text(text, ...); all_audio = io.BytesIO()
SplitStep ==
    /\ tpc = "split"
    /\ chunks' = SplitText(text, max_chars)
    /\ tpc' = "loop"
    /\ UNCHANGED <<text, max_chars, requested, all_audio, speech_result,
                   audio_file, notSpeechVars>>

\* One pass of "for i, chunk in enumerate(chunks)": the chunk is posted; a
\* 200 appends its audio, another status returns None, an exception
\* returns None.  After the last chunk the bytes are returned.
\* Where generate_speech stands after the answer to a chunk: in the loop
\* after a 200, returned after "return None" (another status, or the except
\* clause).
AfterAnswerGoesOn(resp) == "loop"

AfterAnswer(resp) == IF resp = "ok" THEN "loop" ELSE "returned"

SpeakChunk(resp) ==
    /\ tpc = "loop"
    /\ Len(requested) < Len(chunks)
    /\ LET i == Len(requested) + 1
       IN /\ requested' = Append(requested, chunks[i])
          /\ all_audio' = IF resp = "ok" THEN Append(all_audio, i)
                          ELSE all_audio
          /\ tpc' = AfterAnswer(resp)
          /\ speech_result' = IF tpc' = "returned" THEN "None"
                              ELSE speech_result
    /\ UNCHANGED <<text, max_chars, chunks, audio_file, notSpeechVars>>

\* data = all_audio.getvalue(); return data
ReturnAudio ==
    /\ tpc = "loop"
    /\ Len(requested) = Len(chunks)
    /\ tpc' = "returned"
    /\ speech_result' = "data"
    /\ UNCHANGED <<text, max_chars, chunks, requested, all_audio,
                   audio_file, notSpeechVars>>

\* youtube_video.handle: "if not audio: ... return", else audio.mp3 is
\* written with the bytes generate_speech returned.
TakeAudio ==
    /\ tpc = "returned"
    /\ tpc' = "taken"
    /\ audio_file' = IF speech_result = "None" THEN "none" ELSE all_audio
    /\ UNCHANGED <<text, max_chars, chunks, requested, all_audio,
                   speech_result, notSpeechVars>>

InitSpeech ==
    /\ PipeIdle
    /\ SlidesIdle
    /\ JobIdle
    /\ ScriptIdle
    /\ KeysIdle
    /\ ConcatIdle
    /\ CountIdle
    /\ MotionIdle
    /\ SinkIdle
    /\ quota = 0
    /\ tpc = "split"
    /\ text \in SeqsUpTo(Alphabet, MaxText)
    /\ max_chars \in 1..MaxChars
    /\ chunks = <<>>
    /\ requested = <<>>
    /\ all_audio = <<>>
    /\ speech_result = "none"
    /\ audio_file = "none"

NextSpeech ==
    \/ SplitStep
    \/ \E resp \in {"ok", "error", "raise"} : SpeakChunk(resp)
    \/ ReturnAudio
    \/ TakeAudio

SpecSpeech == InitSpeech /\ [][NextSpeech]_vars

-----------------------------------------------------------------------------
(* Claims about the chunks *)

\* A sentence as it is spoken: a piece between two ". ", without the
\* whitespace around it and the full stops that end it.
Spoken(piece) == Strip(RStrip(Strip(piece), {"."}))

HasWords(piece) == \E i \in 1..Len(piece) : piece[i] \notin Whitespace \cup {"."}

\* The sentences of a text, in order.
SentencesOf(t) ==
    LET pieces == SplitSentences(ReplaceNewlines(t))
        spoken == [k \in 1..Len(pieces) |-> Spoken(pieces[k])]
    IN SelectSeq(spoken, HasWords)

RECURSIVE SentencesOfAll(_)
SentencesOfAll(cs) ==
    IF cs = <<>> THEN <<>>
    ELSE SentencesOf(Head(cs)) \o SentencesOfAll(Tail(cs))

WasSplit == tpc \in {"loop", "returned", "taken"}

\* C27: the sentences of the chunks of _split_text, read in chunk order,
\* are the sentences of the text in text order; generate_speech posts the
\* chunks one by one in chunk order and appends their audio in that order,
\* and returns the audio only when every chunk was appended.
C27_ChunksKeepSentences ==
    WasSplit =>
        /\ SentencesOfAll(chunks) = SentencesOf(text)
        /\ Len(requested) <= Len(chunks)
        /\ requested = SubSeq(chunks, 1, Len(requested))
        /\ all_audio = [k \in 1..Len(all_audio) |-> k]
        /\ Len(all_audio) <= Len(requested)
        /\ Len(requested) - Len(all_audio) <= 1
        /\ (speech_result = "data") =>
              (Len(all_audio) = Len(chunks) /\ requested = chunks)

C27_Witness ==
    /\ tpc = "returned"
    /\ speech_result = "data"
    /\ Len(chunks) >= 2
    /\ Len(SentencesOf(text)) >= 2
    /\ SentencesOf(chunks[1]) # SentencesOf(chunks[2])
    /\ all_audio = <<1, 2>>

-----------------------------------------------------------------------------
(* Claims about the concat list of the clip-per-scene handlers *)

ListWritten == pipeline \in ScenePipelines /\ pc \in {"concat", "deliver"}

\* The concat list of a request whose every clip was trimmed: one trim_NN.mp4
\* per scene, in scene order, nothing between them.
TrimmedPerScene(n) == [k \in 1..n |-> <<"trim", k>>]

\* Every call of the request succeeded first time: no step failed, no
\* animation call was flagged and every clip was made from the prompt of
\* its scene.
FirstTime ==
    /\ failures = {}
    /\ \A i \in 1..Len(anim_log) :
          anim_log[i].op = "provider" => anim_log[i].outcome = "video"
    /\ \A k \in 1..Len(video_urls) :
          video_urls[k].prompt = scenes[k].animation_prompt

\* C28: in an animated or tweet request the concat list holds one entry per
\* scene, in scene order, each the trimmed clip of its scene; when every
\* call succeeded first time the list holds as many trimmed clips as scenes
\* were requested and the sanitizer was never called.
C28_OneTrimmedClipPerScene ==
    ListWritten =>
        /\ trimmed_paths = TrimmedPerScene(Len(scenes))
        /\ FirstTime =>
              /\ trimmed_paths = TrimmedPerScene(scene_count)
              /\ SanitizerCalls = <<>>

-----------------------------------------------------------------------------
(* Claims about the floor of the per-chapter durations *)

Allocated == spc # "alloc"

Floor == RInt(MIN_CHAPTER_SECONDS)

\* C29: for every chapter list and audio duration above zero, each chapter
\* is allocated the larger of 3 seconds and its word-count-proportional
\* share of the audio: never less than 3 seconds, exactly 3 seconds for a
\* chapter without narration words, and 3 seconds for every chapter when
\* the narration has no word at all (nothing is divided by zero).
C29_FloorOfThreeSeconds ==
    Allocated =>
        /\ Len(chapter_durations) = Len(chapter_words)
        /\ \A k \in DOMAIN chapter_words :
              /\ RLe(Floor, chapter_durations[k])
              /\ chapter_words[k] = 0 => chapter_durations[k] = Floor
              /\ HasNarration =>
                    chapter_durations[k] = RMax(Floor, ShareOf(k))
              /\ ~HasNarration => chapter_durations[k] = Floor

\* A chapter without words beside one whose share is above the floor and one
\* whose share is below it.
C29_Witness ==
    /\ Allocated
    /\ HasNarration
    /\ \E i, j, k \in DOMAIN chapter_words :
          /\ chapter_words[i] = 0
          /\ RLt(Floor, ShareOf(j))
          /\ chapter_words[k] > 0 /\ RLt(ShareOf(k), Floor)

\* A narration without any word.
C29_WitnessNoWords ==
    /\ Allocated
    /\ ~HasNarration
    /\ Len(chapter_words) >= 2

-----------------------------------------------------------------------------
(* apis.haiku.generate_youtube_script_structured: the chapter count *)

MIN_CHAPTER_COUNT == 4

MAX_CHAPTER_COUNT == 16

Smaller(a, b) == IF a <= b THEN a ELSE b

Larger(a, b) == IF a >= b THEN a ELSE b

\* chapter_count = max(4, min(16, minutes * 2 - 2))
ChapterCountNoCeiling(m) == Larger(MIN_CHAPTER_COUNT, m * 2 - 2)

ChapterCount(m) ==
    Larger(MIN_CHAPTER_COUNT, Smaller(MAX_CHAPTER_COUNT, m * 2 - 2))

\* One call of generate_youtube_script_structured(topic, minutes) with the
\* credential set, up to the line that fixes chapter_count.
CountChapters(m) ==
    /\ Len(asked_minutes) < MaxCalls
    /\ asked_minutes' = Append(asked_minutes, m)
    /\ chapter_counts' = Append(chapter_counts, ChapterCount(m))
    /\ UNCHANGED <<slideVars, pipeVars, jobVars, scriptVars, keyVars,
                   concatVars, speechVars, motionVars, sinkVars>>

InitCount ==
    /\ PipeIdle
    /\ SlidesIdle
    /\ JobIdle
    /\ ScriptIdle
    /\ KeysIdle
    /\ ConcatIdle
    /\ SpeechIdle
    /\ CountIdle
    /\ MotionIdle
    /\ SinkIdle
    /\ quota = 0

NextCount == \E m \in 1..MaxLength : CountChapters(m)

SpecCount == InitCount /\ [][NextCount]_vars

-----------------------------------------------------------------------------
(* Claims about the chapter count *)

\* x limited to lo..hi
Clamp(x, lo, hi) == IF x < lo THEN lo ELSE IF x > hi THEN hi ELSE x

\* C30: for every target length of m >= 1 minutes the chapter count of the
\* structured script is 2*m - 2 limited to 4..16: it lies within 4..16 and
\* a longer target never gets fewer chapters than a shorter one.
C30_ChapterCountClamped ==
    /\ Len(chapter_counts) = Len(asked_minutes)
    /\ \A i \in DOMAIN asked_minutes :
          /\ chapter_counts[i] = Clamp(2 * asked_minutes[i] - 2, 4, 16)
          /\ chapter_counts[i] \in 4..16
    /\ \A i, j \in DOMAIN asked_minutes :
          asked_minutes[i] <= asked_minutes[j] =>
              chapter_counts[i] <= chapter_counts[j]

\* A target below the floor of the clamp was counted beside one above its
\* ceiling.
C30_Witness ==
    /\ Len(asked_minutes) = 2
    /\ 2 * asked_minutes[1] - 2 < 4
    /\ 2 * asked_minutes[2] - 2 > 16
    /\ chapter_counts = <<4, 16>>

-----------------------------------------------------------------------------
(* Claims about the size of the chunks *)

\* C38: every chunk returned by _split_text is at most max_chars long, a
\* text with one sentence longer than max_chars included, so no speech
\* request carries more than the chunk limit.
C38_ChunksWithinLimit ==
    WasSplit =>
        /\ \A k \in DOMAIN chunks : Len(chunks[k]) <= max_chars
        /\ \A k \in DOMAIN requested : Len(requested[k]) <= max_chars

-----------------------------------------------------------------------------
(* Claims about a failed chunk *)

\* A chunk was posted and its audio was not appended.
ChunkFailed == Len(all_audio) < Len(requested)

\* C39: speech synthesis is all or nothing: once the request for a chunk
\* has failed generate_speech returns None, no later chunk is requested, and
\* the audio of the chunks before it is neither returned nor written to
\* audio.mp3; what is written is the audio of every chunk, in order.
C39_AllOrNothing ==
    /\ [](ChunkFailed =>
            /\ tpc \in {"returned", "taken"}
            /\ speech_result = "None"
            /\ audio_file = "none")
    /\ [](audio_file # "none" =>
            /\ ~ChunkFailed
            /\ audio_file = [k \in 1..Len(chunks) |-> k])
    /\ [][ChunkFailed =>
            /\ requested' = requested
            /\ all_audio' = all_audio
            /\ speech_result' = speech_result]_vars

\* The second of two chunks failed and the handler has taken the result.
C39_Witness ==
    /\ tpc = "taken"
    /\ Len(chunks) >= 2
    /\ all_audio = <<1>>
    /\ Len(requested) = 2
    /\ speech_result = "None"
    /\ audio_file = "none"

-----------------------------------------------------------------------------
(* Claims about a failed continuation *)

FlatDone == adapter \in Adapters \ {"structured"} /\ gpc = "done"

\* C37: in the flat-script adapters (haiku, grok, openai) a continuation
\* call never costs the script already held: when the first call returned a
\* script below 60% of the target and the continuation was issued, the
\* adapter returns a script with at least the words of the first one, also
\* when the continuation returned nothing or raised.
C37_ContinuationKeepsScript ==
    (FlatDone /\ cont_calls = 1) =>
        /\ gresult = "script"
        /\ script_words >= first_words

-----------------------------------------------------------------------------
(* utils.video.create_ken_burns_clips *)

KB_EFFECTS == <<"zoom_in", "zoom_out", "pan_right", "pan_left">>

\* effect = KB_EFFECTS[i % len(KB_EFFECTS)], i counted from 0
EffectOfPair(i) == KB_EFFECTS[(i % 2) + 1]

EffectOf(i) == KB_EFFECTS[(i % Len(KB_EFFECTS)) + 1]

notMotionVars == <<slideVars, pipeVars, jobVars, scriptVars, keyVars, concatVars,
                   speechVars, countVars, sinkVars>>

\* One pass of "for i, (url, dur) in enumerate(zip(image_urls, durations))":
\* the image is downloaded to slide_NN.jpg or slide_NN.png, the effect is
\* picked, _ken_burns_clip writes kb_NN.mp4.  A failed download or a failed
\* clip returns [].  _download and _run_ffmpeg catch every exception.
MotionStep(o) ==
    /\ kpc = "loop"
    /\ Len(motion_paths) < Len(slide_exts)
    /\ LET i == Len(motion_paths)
       IN CASE o = "download" ->
                 /\ kpc' = "returned"
                 /\ motion_result' = <<>>
                 /\ UNCHANGED <<slide_files, effects, motion_paths>>
            [] o = "kenburns" ->
                 /\ slide_files' = Append(slide_files,
                                          <<"slide", i, slide_exts[i + 1]>>)
                 /\ effects' = Append(effects, EffectOf(i))
                 /\ kpc' = "returned"
                 /\ motion_result' = <<>>
                 /\ UNCHANGED motion_paths
            [] o = "ok" ->
                 /\ slide_files' = Append(slide_files,
                                          <<"slide", i, slide_exts[i + 1]>>)
                 /\ effects' = Append(effects, EffectOf(i))
                 /\ motion_paths' = Append(motion_paths, <<"kb", i>>)
                 /\ UNCHANGED <<kpc, motion_result>>
    /\ UNCHANGED <<slide_exts, notMotionVars>>

\* return clip_paths
MotionReturn ==
    /\ kpc = "loop"
    /\ Len(motion_paths) = Len(slide_exts)
    /\ kpc' = "returned"
    /\ motion_result' = motion_paths
    /\ UNCHANGED <<slide_exts, slide_files, effects, motion_paths,
                   notMotionVars>>

InitMotion ==
    /\ PipeIdle
    /\ SlidesIdle
    /\ JobIdle
    /\ ScriptIdle
    /\ KeysIdle
    /\ ConcatIdle
    /\ SpeechIdle
    /\ CountIdle
    /\ SinkIdle
    /\ quota = 0
    /\ kpc = "loop"
    /\ slide_exts \in SeqsUpTo({".jpg", ".png"}, MaxSlides)
    /\ slide_files = <<>>
    /\ effects = <<>>
    /\ motion_paths = <<>>
    /\ motion_result = "none"

NextMotion ==
    \/ \E o \in {"ok", "download", "kenburns"} : MotionStep(o)
    \/ MotionReturn

SpecMotion == InitMotion /\ [][NextMotion]_vars

-----------------------------------------------------------------------------
(* Claims about the motion profiles *)

\* The fixed order of the profiles.
ProfileOrder == <<"zoom_in", "zoom_out", "pan_right", "pan_left">>

\* C31: chapter i (counted from 0) gets the profile at place i mod 4 of
\* zoom_in, zoom_out, pan_right, pan_left, so two consecutive chapters never
\* get the same profile and chapters i and i+4 always do; and
\* create_ken_burns_clips returns one clip per chapter in chapter order, or
\* the empty list when a download or a motion synthesis failed, never a
\* partial list.
C31_ProfilesRotate ==
    /\ \A k \in DOMAIN effects : effects[k] = ProfileOrder[((k - 1) % 4) + 1]
    /\ \A k \in DOMAIN effects :
          /\ (k + 1 \in DOMAIN effects) => effects[k + 1] # effects[k]
          /\ (k + 4 \in DOMAIN effects) => effects[k + 4] = effects[k]
    /\ kpc = "returned" =>
          \/ motion_result = <<>>
          \/ /\ motion_result = [k \in DOMAIN slide_exts |-> <<"kb", k - 1>>]
             /\ Len(effects) = Len(slide_exts)
    /\ (kpc = "returned" /\ Len(motion_paths) < Len(slide_exts)) =>
          motion_result = <<>>

C31_Witness ==
    /\ kpc = "returned"
    /\ Len(slide_exts) >= 6
    /\ Len(motion_result) = Len(slide_exts)
    /\ effects[5] = effects[1]
    /\ effects[6] = effects[2]

-----------------------------------------------------------------------------
(* Claims about the progress sink of kling.poll_video *)

\* The call stands right behind a poll request: asleep after it, or
\* returned by it.
BehindPoll ==
    \/ jpc = "sleep"
    \/ jpc = "returned" /\ jattempt < MaxPolls(provider)

\* C32: poll_video invokes the progress sink on exactly the polls whose
\* index, counted from 0, is a multiple of 3 and whose request got a 200, and
\* a failure of the sink never changes the result the call returns for the
\* job: the result a poll had read when the sink raised is the result
\* returned.
C32_SinkEveryThirdPollAndHarmless ==
    /\ BehindPoll =>
          (sink_called <=> (jattempt % 3 = 0 /\ last_resp \notin PollErrors))
    /\ (PollReturned /\ lost # "none") => jresult = lost

-----------------------------------------------------------------------------
(* Claims about slide generation *)

\* The stages of the slide pipeline behind slide generation.
SlideAssembly == {"yt_probe", "yt_kb", "yt_cprobe", "yt_xfade", "yt_mux"}

AssemblyReached == pipeline = "youtube" /\ yt_mode = "slides" /\ pc \in SlideAssembly

\* Entry k of the slide list is the slide of chapter k, returned by the
\* first or by the second generate_slide call for that chapter.
SlideOfChapter(k) ==
    /\ image_urls[k].scene = k
    /\ image_urls[k].endpoint = "slide"
    /\ image_urls[k].ref \in 1..2

\* C33: in the slide pipeline each chapter costs at most two generate_slide
\* calls (its visual prompt, then one simpler prompt); when both return
\* nothing the request ends as failed with its work area cleaned; so once
\* assembly is reached the slide list holds exactly one url per chapter, in
\* chapter order.
C33_OneSlidePerChapter ==
    /\ []((pipeline = "youtube" /\ yt_mode = "slides") =>
            /\ Len(image_urls) <= Len(chapters)
            /\ \A k \in DOMAIN image_urls : SlideOfChapter(k))
    /\ [](AssemblyReached => Len(image_urls) = Len(chapters))
    /\ [][(pc = "yt_slide" /\ pc' # "yt_slide" /\ pc' \notin SlideAssembly) =>
            /\ pc' = "idle"
            /\ result' = "failed"
            /\ WorkAreaFiles' = {}]_vars

\* Assembly reached with two slides, one of them from the second attempt.
C33_Witness ==
    /\ AssemblyReached
    /\ Len(chapters) = 2
    /\ Len(image_urls) = 2
    /\ \E k \in DOMAIN image_urls : image_urls[k].ref = 2
    /\ \E k \in DOMAIN image_urls : image_urls[k].ref = 1

-----------------------------------------------------------------------------
(* Claims about what a publish press uploads, over several requests *)

\* C34: what a publish press uploads belongs to the request whose prompt
\* was pressed: after any sequence of requests of one user, a visibility
\* button on the prompt of request R uploads the output file R wrote, with
\* R's topic.
C34_UploadBelongsToPrompt ==
    \A i \in DOMAIN uploads :
        /\ uploads[i].by = uploads[i].prompt
        /\ uploads[i].topic = uploads[i].prompt

\* C35: the description sent with an upload comes only from the request
\* that produced the uploaded file: the script used, if any, is the script
\* of that request, never one an earlier request stored, in any order of
\* youtube, animated and tweet requests.
C35_DescriptionFromProducer ==
    \A i \in DOMAIN uploads :
        \/ uploads[i].script = 0   \* no script stored
        \/ uploads[i].script = uploads[i].by

\* The output files on disk.
OutputFiles == {f \in files : \E p \in Pipelines : f.name = FinalName(p)}

\* C36: at any time at most one output file of the user is on disk, whatever
\* pipelines produced it, and it is the file last_video_path names, so a
\* skip or publish press can still reach and remove every output on disk.
C36_OneReachableOutput ==
    /\ Cardinality(OutputFiles) <= 1
    /\ \A f \in OutputFiles :
          FilePath(f.dir, f.name) = user_data.last_video_path

====
